---- MODULE Spec2Model ----
(***************************************************************************)
(* A model of januwA/my-lang-js (src/basic.ts, first module, lines 1-2504 *)
(* and src/Position.ts): the lexer, the parser, the tree-walking           *)
(* interpreter and the process-wide global symbol table.                   *)
(*                                                                         *)
(* A JavaScript string is modelled as a sequence of one-character strings. *)
(* A source text is such a sequence; Str joins one into a TLA+ string     *)
(* where the code uses the string as a name or compares it to a keyword.   *)
(***************************************************************************)
EXTENDS Integers, Sequences, FiniteSets, TLC

VARIABLES
    lexText,        \* Lexer.text: the text handed to the lexer
    lexer,          \* the Lexer object while makeTokens runs: pos, curChar, tokens, error, done
    symbolTables,   \* the SymbolTable objects; symbolTables[1] is globalSymbolTable
    basicContexts,  \* the BasicContext objects made so far
    elementArrays,  \* the elements arrays of the ListValues made so far
    valueObjects,   \* the value objects a table or an array has held, as they are now
    session,        \* the texts run was called with so far, in order
    outcome         \* what the last call of run returned or threw

vars == <<lexText, lexer, symbolTables, basicContexts, elementArrays, valueObjects,
          session, outcome>>
replVars == <<symbolTables, basicContexts, elementArrays, valueObjects, session, outcome>>
lexVars == <<lexText, lexer>>

(***************************************************************************)
(* Host values                                                             *)
(***************************************************************************)
\* JavaScript null, as curChar at the end of the text and as an absent token value
NULL == "<null>"
\* JavaScript undefined, what makeAnd / makeOr return on a single & or |
UNDEFINED == "<undefined>"

RECURSIVE Str(_)
Str(chars) == IF chars = <<>> THEN "" ELSE Head(chars) \o Str(Tail(chars))

\* the characters of a string
Chars(string) == [i \in 1..Len(string) |-> SubSeq(string, i, i)]

(***************************************************************************)
(* Token types and keywords: src/basic.ts 3-44                            *)
(***************************************************************************)
DigitChars == {"0", "1", "2", "3", "4", "5", "6", "7", "8", "9", "."}
LetterChars ==
    {"a", "b", "c", "d", "e", "f", "g", "h", "i", "j", "k", "l", "m",
     "n", "o", "p", "q", "r", "s", "t", "u", "v", "w", "x", "y", "z",
     "A", "B", "C", "D", "E", "F", "G", "H", "I", "J", "K", "L", "M",
     "N", "O", "P", "Q", "R", "S", "T", "U", "V", "W", "X", "Y", "Z",
     "0", "1", "2", "3", "4", "5", "6", "7", "8", "9", "_"}

\* !DIGITS.test(c) with DIGITS = /[^0-9\.]/
IsDigitChar(c) == c \in DigitChars
\* !LETTERS.test(c) with LETTERS = /[^a-zA-Z0-9_]/
IsLetterChar(c) == c \in LetterChars

TT_INT == "INT"
TT_FLOAT == "FLOAT"
TT_STRING == "STRING"
TT_IDENTIFIER == "IDENTIFIER"
TT_KEYWORD == "KEYWORD"
TT_PLUS == "PLUS"
TT_MINUS == "MINUS"
TT_MUL == "MUL"
TT_DIV == "DIV"
TT_POW == "POW"
TT_EQ == "EQ"
TT_LPAREN == "LPAREN"
TT_RPAREN == "RPAREN"
TT_LSQUARE == "LSQUARE"
TT_RSQUARE == "RSQUARE"
TT_EE == "EE"
TT_NE == "NE"
TT_LT == "LT"
TT_GT == "GT"
TT_LTE == "LTE"
TT_GTE == "GTE"
TT_COMMA == "COMMA"
TT_ARROW == "ARROW"
TT_EOF == "EOF"
KEYWORDS == {"var", "&&", "||", "!", "if", "then", "elif", "else",
             "for", "to", "step", "while", "fun"}

(***************************************************************************)
(* Position: src/Position.ts                                               *)
(***************************************************************************)
Position(index, row, col) == [index |-> index, row |-> row, col |-> col]

\* Position.advance(char): index and col move on; a newline resets col and
\* moves to the next row.
PositionAdvance(pos, char) ==
    IF char = "\n"
    THEN Position(pos.index + 1, pos.row + 1, 0)
    ELSE Position(pos.index + 1, pos.row, pos.col + 1)

(***************************************************************************)
(* Token: src/basic.ts 130-157.  The constructor copies posStart; a given  *)
(* posEnd is stored as passed (144), not copied.  Every caller that gives  *)
(* a posEnd gives the lexer's own pos object (this.pos), which advance()   *)
(* keeps mutating, so such a token's posEnd IS the lexer's position:       *)
(* posEndIsLexerPos records the sharing and LexerTokens reads through it.  *)
(***************************************************************************)
NoPosEnd == "<no posEnd>"
\* a token without a value (value null); a value is a sequence of characters
NoValue == <<"<null>">>
LexerPos == "<this.pos>"

Token(type, value, posStart, posEnd) ==
    [type |-> type,
     value |-> value,
     posStart |-> posStart,
     posEnd |-> PositionAdvance(posStart, ""),
     posEndIsLexerPos |-> (posEnd = LexerPos)]

\* tokens.push(undefined): what makeAnd / makeOr hand back for a lone & or |
UndefinedToken ==
    [type |-> UNDEFINED,
     value |-> NoValue,
     posStart |-> Position(0, 0, 0),
     posEnd |-> Position(0, 0, 0),
     posEndIsLexerPos |-> FALSE]

\* The token as a reader sees it while the lexer's position is pos.
TokenView(token, pos) ==
    IF token.posEndIsLexerPos THEN [token EXCEPT !.posEnd = pos] ELSE token

TokensView(tokens, pos) == [i \in 1..Len(tokens) |-> TokenView(tokens[i], pos)]

(***************************************************************************)
(* Errors: src/basic.ts 59-128                                             *)
(***************************************************************************)
NoError == [name |-> "<no error>"]

IllegalCharError(posStart, posEnd, message) ==
    [name |-> "Illegal CharError", posStart |-> posStart, posEnd |-> posEnd,
     message |-> message]

InvalidSyntaxError(posStart, posEnd, message) ==
    [name |-> "Invalid Syntax", posStart |-> posStart, posEnd |-> posEnd,
     message |-> message]

(***************************************************************************)
(* Lexer: src/basic.ts 164-439.  L is the pair (pos, curChar).             *)
(***************************************************************************)
\* Lexer.advance
LexerAdvance(text, L) ==
    LET p == PositionAdvance(L.pos, L.curChar)
    IN  [pos |-> p,
         curChar |-> IF p.index < Len(text) THEN text[p.index + 1] ELSE NULL]

\* new Lexer(fileName, text): pos starts at (-1, 0, -1) and is advanced once
NewLexer(text) ==
    LexerAdvance(text, [pos |-> Position(-1, 0, -1), curChar |-> NULL])

\* escapeCaracters[c] || c
EscapeOf(c) == IF c = "n" THEN "\n" ELSE IF c = "t" THEN "\t" ELSE c

RECURSIVE makeStringLoop(_, _, _, _)
makeStringLoop(text, L, str, escapeCharacter) ==
    IF L.curChar # NULL /\ (L.curChar # "\"" \/ escapeCharacter)
    THEN IF escapeCharacter
         THEN makeStringLoop(text, LexerAdvance(text, L),
                             Append(str, EscapeOf(L.curChar)), escapeCharacter)
         ELSE IF L.curChar = "\\"
              THEN makeStringLoop(text, LexerAdvance(text, L), str, TRUE)
              ELSE makeStringLoop(text, LexerAdvance(text, L),
                                  Append(str, L.curChar), escapeCharacter)
    ELSE [L |-> L, str |-> str]

makeString(text, L) ==
    LET posStart == L.pos
        r == makeStringLoop(text, LexerAdvance(text, L), <<>>, FALSE)
        after == LexerAdvance(text, r.L)
    IN  [L |-> after, token |-> Token(TT_STRING, r.str, posStart, LexerPos)]

\* makeMinusOrArrow, makeMulOrPow, makeEquals, makeLessThan, makeGreaterThan:
\* one character, or two when the second is `second`
makeOneOrTwo(text, L, second, oneType, twoType) ==
    LET posStart == L.pos
        L1 == LexerAdvance(text, L)
    IN  IF L1.curChar = second
        THEN [L |-> LexerAdvance(text, L1),
              token |-> Token(twoType, NoValue, posStart, LexerPos)]
        ELSE [L |-> L1, token |-> Token(oneType, NoValue, posStart, LexerPos)]

makeMinusOrArrow(text, L) == makeOneOrTwo(text, L, ">", TT_MINUS, TT_ARROW)
makeMulOrPow(text, L) == makeOneOrTwo(text, L, "*", TT_MUL, TT_POW)
makeEquals(text, L) == makeOneOrTwo(text, L, "=", TT_EQ, TT_EE)
makeLessThan(text, L) == makeOneOrTwo(text, L, "=", TT_LT, TT_LTE)
makeGreaterThan(text, L) == makeOneOrTwo(text, L, "=", TT_GT, TT_GTE)

makeNotEquals(text, L) ==
    LET posStart == L.pos
        L1 == LexerAdvance(text, L)
    IN  IF L1.curChar = "="
        THEN [L |-> LexerAdvance(text, L1),
              token |-> Token(TT_NE, NoValue, posStart, LexerPos)]
        ELSE [L |-> L1, token |-> Token(TT_KEYWORD, <<"!">>, posStart, LexerPos)]

makeAnd(text, L) ==
    LET posStart == L.pos
        L1 == LexerAdvance(text, L)
    IN  IF L1.curChar = "&"
        THEN [L |-> LexerAdvance(text, L1),
              token |-> Token(TT_KEYWORD, <<"&", "&">>, posStart, LexerPos)]
        ELSE [L |-> L1, token |-> UndefinedToken]

makeOr(text, L) ==
    LET posStart == L.pos
        L1 == LexerAdvance(text, L)
    IN  IF L1.curChar = "|"
        THEN [L |-> LexerAdvance(text, L1),
              token |-> Token(TT_KEYWORD, <<"|", "|">>, posStart, LexerPos)]
        ELSE [L |-> L1, token |-> UndefinedToken]

RECURSIVE makeNumberLoop(_, _, _, _)
makeNumberLoop(text, L, numStr, isDot) ==
    IF L.curChar # NULL /\ IsDigitChar(L.curChar)
    THEN IF L.curChar = "."
         THEN IF isDot
              THEN [L |-> L, numStr |-> numStr, isDot |-> isDot]
              ELSE makeNumberLoop(text, LexerAdvance(text, L),
                                  Append(numStr, "."), TRUE)
         ELSE makeNumberLoop(text, LexerAdvance(text, L),
                             Append(numStr, L.curChar), isDot)
    ELSE [L |-> L, numStr |-> numStr, isDot |-> isDot]

makeNumber(text, L) ==
    LET posStart == L.pos
        r == makeNumberLoop(text, L, <<>>, FALSE)
    IN  [L |-> r.L,
         token |-> Token(IF r.isDot THEN TT_FLOAT ELSE TT_INT, r.numStr,
                         posStart, LexerPos)]

RECURSIVE makeIdentifierLoop(_, _, _)
makeIdentifierLoop(text, L, idStr) ==
    IF L.curChar # NULL /\ IsLetterChar(L.curChar)
    THEN makeIdentifierLoop(text, LexerAdvance(text, L), Append(idStr, L.curChar))
    ELSE [L |-> L, idStr |-> idStr]

makeIdentifier(text, L) ==
    LET posStart == L.pos
        r == makeIdentifierLoop(text, L, <<>>)
    IN  [L |-> r.L,
         token |-> Token(IF Str(r.idStr) \in KEYWORDS THEN TT_KEYWORD
                         ELSE TT_IDENTIFIER,
                         r.idStr, posStart, LexerPos)]

\* the single-character cases of makeTokens' switch
SingleCharType(c) ==
    CASE c = "+" -> TT_PLUS
      [] c = "/" -> TT_DIV
      [] c = "(" -> TT_LPAREN
      [] c = ")" -> TT_RPAREN
      [] c = "[" -> TT_LSQUARE
      [] c = "]" -> TT_RSQUARE
      [] c = "," -> TT_COMMA

SingleChars == {"+", "/", "(", ")", "[", "]", ","}
Whitespace == {" ", "\t", "\n"}

\* The token-making functions of the switch, by first character.
MakerChars == {"-", "*", "!", "=", ">", "<", "&", "|", "\""}
Maker(text, L) ==
    CASE L.curChar = "-" -> makeMinusOrArrow(text, L)
      [] L.curChar = "*" -> makeMulOrPow(text, L)
      [] L.curChar = "!" -> makeNotEquals(text, L)
      [] L.curChar = "=" -> makeEquals(text, L)
      [] L.curChar = ">" -> makeGreaterThan(text, L)
      [] L.curChar = "<" -> makeLessThan(text, L)
      [] L.curChar = "&" -> makeAnd(text, L)
      [] L.curChar = "|" -> makeOr(text, L)
      [] L.curChar = "\"" -> makeString(text, L)

\* The lexer object during makeTokens: S.done is set by the return, S.error
\* by the throw.
LexerStart(text) ==
    LET L == NewLexer(text)
    IN  [pos |-> L.pos, curChar |-> L.curChar, tokens |-> <<>>,
         error |-> NoError, done |-> FALSE]

LexerPush(S, r) ==
    [S EXCEPT !.pos = r.L.pos, !.curChar = r.L.curChar,
              !.tokens = Append(S.tokens, r.token)]

\* One pass of the body of makeTokens' while loop (184-270), or, at the end
\* of the text, the push of EOF and the return (272-273).
makeTokensStep(text, S) ==
    LET L == [pos |-> S.pos, curChar |-> S.curChar]
    IN  IF S.curChar = NULL
        THEN [S EXCEPT !.tokens = Append(S.tokens, Token(TT_EOF, NoValue, S.pos, NoPosEnd)),
                       !.done = TRUE]
        ELSE IF IsDigitChar(S.curChar) THEN LexerPush(S, makeNumber(text, L))
        ELSE IF IsLetterChar(S.curChar) THEN LexerPush(S, makeIdentifier(text, L))
        ELSE IF S.curChar \in Whitespace
             THEN LET L1 == LexerAdvance(text, L)
                  IN  [S EXCEPT !.pos = L1.pos, !.curChar = L1.curChar]
        ELSE IF S.curChar \in SingleChars
             THEN LexerPush(S, [L |-> LexerAdvance(text, L),
                                token |-> Token(SingleCharType(S.curChar), NoValue,
                                                S.pos, NoPosEnd)])
        ELSE IF S.curChar \in MakerChars THEN LexerPush(S, Maker(text, L))
        ELSE LET L1 == LexerAdvance(text, L)
             IN  [S EXCEPT !.pos = L1.pos, !.curChar = L1.curChar,
                           !.error = IllegalCharError(S.pos, L1.pos, S.curChar),
                           !.done = TRUE]

RECURSIVE makeTokensLoop(_, _)
makeTokensLoop(text, S) ==
    IF S.done THEN S ELSE makeTokensLoop(text, makeTokensStep(text, S))

\* The tokens of the lexer object as anyone holding them reads them: a
\* posEnd shared with the lexer shows the lexer's current position.
LexerTokens(S) == TokensView(S.tokens, S.pos)

\* new Lexer(fileName, text).makeTokens(): the tokens returned, or the error thrown
makeTokens(text) ==
    LET S == makeTokensLoop(text, LexerStart(text))
    IN  [error |-> S.error, tokens |-> LexerTokens(S)]

(***************************************************************************)
(* AST nodes: src/basic.ts 441-568.  A node's span is taken from its       *)
(* tokens and children as the constructors take it.                        *)
(***************************************************************************)
NoNode == [kind |-> "<null>"]
NoToken == [type |-> NULL]

NumberNode(token) ==
    [kind |-> "NumberNode", token |-> token,
     posStart |-> token.posStart, posEnd |-> token.posEnd]

StringNode(token) ==
    [kind |-> "StringNode", token |-> token,
     posStart |-> token.posStart, posEnd |-> token.posEnd]

ListNode(elementNodes, posStart, posEnd) ==
    [kind |-> "ListNode", elementNodes |-> elementNodes,
     posStart |-> posStart, posEnd |-> posEnd]

VarAccessNode(varNameToken) ==
    [kind |-> "VarAccessNode", varNameToken |-> varNameToken,
     posStart |-> varNameToken.posStart, posEnd |-> varNameToken.posEnd]

VarAssignNode(varNameToken, valueNode) ==
    [kind |-> "VarAssignNode", varNameToken |-> varNameToken,
     valueNode |-> valueNode,
     posStart |-> varNameToken.posStart, posEnd |-> valueNode.posEnd]

UnaryOpNode(token, node) ==
    [kind |-> "UnaryOpNode", token |-> token, node |-> node,
     posStart |-> token.posStart, posEnd |-> node.posEnd]

\* cases is a sequence of <<condition, expr>> pairs; the span ends at the
\* else branch, or at the last case's condition (504)
IfNode(cases, elseCase) ==
    [kind |-> "IfNode", cases |-> cases, elseCase |-> elseCase,
     posStart |-> cases[1][1].posStart,
     posEnd |-> IF elseCase.kind # NoNode.kind THEN elseCase.posEnd
                ELSE cases[Len(cases)][1].posEnd]

ForNode(varNameToken, startNode, endNode, stepNode, bodyNode) ==
    [kind |-> "ForNode", varNameToken |-> varNameToken,
     startNode |-> startNode, endNode |-> endNode, stepNode |-> stepNode,
     bodyNode |-> bodyNode,
     posStart |-> varNameToken.posStart, posEnd |-> bodyNode.posEnd]

FuncDefNode(varNameToken, argNameTokens, bodyNode) ==
    [kind |-> "FuncDefNode", varNameToken |-> varNameToken,
     argNameTokens |-> argNameTokens, bodyNode |-> bodyNode,
     posStart |-> IF varNameToken.type # NULL THEN varNameToken.posStart
                  ELSE IF Len(argNameTokens) > 0 THEN argNameTokens[1].posStart
                  ELSE bodyNode.posStart,
     posEnd |-> bodyNode.posEnd]

CallNode(nodeToCall, argNodes) ==
    [kind |-> "CallNode", nodeToCall |-> nodeToCall, argNodes |-> argNodes,
     posStart |-> nodeToCall.posStart,
     posEnd |-> IF Len(argNodes) > 0 THEN argNodes[Len(argNodes)].posEnd
                ELSE nodeToCall.posEnd]

WhileNode(conditionNode, bodyNode) ==
    [kind |-> "WhileNode", conditionNode |-> conditionNode,
     bodyNode |-> bodyNode,
     posStart |-> conditionNode.posStart, posEnd |-> bodyNode.posEnd]

BinOpNode(leftNode, token, rightNode) ==
    [kind |-> "BinOpNode", leftNode |-> leftNode, token |-> token,
     rightNode |-> rightNode,
     posStart |-> leftNode.posStart, posEnd |-> rightNode.posEnd]

(***************************************************************************)
(* ParseRusult: src/basic.ts 570-600.  A result record also carries idx,   *)
(* the parser's index (1-based) when the result was handed back, since the *)
(* parser object is shared by all the rules.                               *)
(***************************************************************************)
HasError(res) == res.error.name # NoError.name

NewParseRusult(idx) ==
    [idx |-> idx, error |-> NoError, node |-> NoNode, advanceCount |-> 0]

\* res.registerAdvancement(); this.advance()
Advanced(res) ==
    [res EXCEPT !.idx = @ + 1, !.advanceCount = @ + 1]

\* res.register(sub): the node it returns is sub.node
Register(res, sub) ==
    [res EXCEPT !.idx = sub.idx,
                !.advanceCount = @ + sub.advanceCount,
                !.error = IF HasError(sub) THEN sub.error ELSE @]

Success(res, node) == [res EXCEPT !.node = node]

\* failure() letting the last error win
FailureAlways(res, error) == [res EXCEPT !.error = error]

Failure(res, error) ==
    IF ~HasError(res) \/ res.advanceCount = 0
    THEN [res EXCEPT !.error = error]
    ELSE res

(***************************************************************************)
(* Parser: src/basic.ts 606-1265                                           *)
(***************************************************************************)
\* this.curToken when the parser's index is idx
CurToken(tokens, idx) == IF idx <= Len(tokens) THEN tokens[idx] ELSE NoToken

\* Token.matches(type, value)
Matches(token, type, value) == token.type = type /\ Str(token.value) = value

\* new InvalidSyntaxError(this.curToken.posStart, this.curToken.posEnd, message)
SyntaxErrorAt(tokens, idx, message) ==
    InvalidSyntaxError(CurToken(tokens, idx).posStart,
                       CurToken(tokens, idx).posEnd, message)

\* `${type}:${value}`, the form binOp's ops list names keywords in
TypeAndValue(token) ==
    token.type \o ":" \o (IF token.value = NoValue THEN "null" ELSE Str(token.value))

ExpectedExpr ==
    "Expected 'var', 'if', 'for', 'while', 'fun', int, float, identifier, '+', '-', '(', '[' or '!'"
ExpectedComp == "Expected int, float, identifier, '+', '-', '(', '!'"
ExpectedAtom ==
    "Expected int, float, identifier, '+', '-', '(', 'if', 'for', 'while', 'fun'"
ExpectedListElement ==
    "Expected ']', 'var', 'if', 'for', 'while', 'fun', int, float, identifier, '+', '-', '(' or '!'"
ExpectedArgument ==
    "Expected ')', 'var', 'if', 'for', 'while', 'fun', int, float, identifier, '+', '-', '(' or '!'"
ExpectedOperator ==
    "Expected '+', '-', '*', '/', '^', '==', '!=', '<', '>', <=', '>=', '&&' or '||'"

RECURSIVE expr(_, _), compExpr(_, _), arithExpr(_, _), term(_, _),
          factor(_, _), power(_, _), call(_, _), atom(_, _),
          listExpr(_, _), ifExpr(_, _), forExpr(_, _), whileExpr(_, _),
          funDef(_, _), binOpLoop(_, _, _, _, _), Rule(_, _, _),
          RuleOn(_, _, _, _), Ascend(_, _, _, _, _),
          exprListLoop(_, _, _), elifLoop(_, _, _), argNamesLoop(_, _, _)

\* The parsing methods below are written as one CASE each: its arms are the
\* method's returns in the order the method reaches them, each guarded by
\* the condition of that return, and the LET names the results the method
\* has by then.  An arm is only looked at when the arms before it failed.

\* the while loop of binOp (1250-1262); handle_b is the name of a rule
binOpLoop(tokens, res, leftNode, ops, handle_b) ==
    LET token == CurToken(tokens, res.idx)
        r1 == Advanced(res)
        rightNode == Rule(handle_b, tokens, r1.idx)
        r2 == Register(r1, rightNode)
    IN  CASE ~(token.type \in ops \/ TypeAndValue(token) \in ops) ->
               Success(res, leftNode)
          [] HasError(rightNode) -> r2
          [] OTHER -> binOpLoop(tokens, r2, BinOpNode(leftNode, token, rightNode.node),
                                ops, handle_b)

\* binOp with '+' and '-' among the operators of every tier
binOpFlat(tokens, idx, leftNode, ops, handle_b) ==
    binOpLoop(tokens, Register(NewParseRusult(idx), leftNode), leftNode.node,
              ops \cup {TT_PLUS, TT_MINUS}, handle_b)

\* binOp (1243-1264) once handle_a() has returned leftNode without an error
binOp(tokens, idx, leftNode, ops, handle_b) ==
    binOpLoop(tokens, Register(NewParseRusult(idx), leftNode), leftNode.node,
              ops, handle_b)

\* the `while (curToken.type === TT_COMMA)` loops of listExpr (659-665) and
\* call (1027-1033); the result's node holds the nodes gathered
exprListLoop(tokens, res, nodes) ==
    LET r1 == Advanced(res)
        element == expr(tokens, r1.idx)
        r2 == Register(r1, element)
    IN  CASE CurToken(tokens, res.idx).type # TT_COMMA ->
               Success(res, [kind |-> "<nodes>", nodes |-> nodes])
          [] HasError(element) -> r2
          [] OTHER -> exprListLoop(tokens, r2, Append(nodes, element.node))

listExpr(tokens, idx) ==
    LET posStart == CurToken(tokens, idx).posStart
        r1 == Advanced(NewParseRusult(idx))
        empty == Advanced(r1)
        first == expr(tokens, r1.idx)
        r2 == Register(r1, first)
        r3 == exprListLoop(tokens, r2, <<first.node>>)
        r4 == Advanced(r3)
    IN  CASE CurToken(tokens, r1.idx).type = TT_RSQUARE ->
               Success(empty, ListNode(<<>>, posStart, CurToken(tokens, empty.idx).posEnd))
          [] HasError(first) ->
               Failure(r2, SyntaxErrorAt(tokens, r2.idx, ExpectedListElement))
          [] HasError(r3) -> r3
          [] CurToken(tokens, r3.idx).type # TT_RSQUARE ->
               Failure([r3 EXCEPT !.node = NoNode],
                       SyntaxErrorAt(tokens, r3.idx, "Expected ',' or ']'"))
          [] OTHER -> Success(r4, ListNode(r3.node.nodes, posStart,
                                           CurToken(tokens, r4.idx).posEnd))

\* the `while (curToken.matches(TT_KEYWORD, "elif"))` loop of ifExpr (724-747);
\* the result's node holds the cases gathered
elifLoop(tokens, res, cases) ==
    LET r1 == Advanced(res)
        condition == expr(tokens, r1.idx)
        r2 == Register(r1, condition)
        r3 == Advanced(r2)
        _expr == expr(tokens, r3.idx)
        r4 == Register(r3, _expr)
    IN  CASE ~Matches(CurToken(tokens, res.idx), TT_KEYWORD, "elif") ->
               Success(res, [kind |-> "<cases>", cases |-> cases])
          [] HasError(condition) -> r2
          [] ~Matches(CurToken(tokens, r2.idx), TT_KEYWORD, "then") ->
               Failure(r2, SyntaxErrorAt(tokens, r2.idx, "Expected 'then'"))
          [] HasError(_expr) -> r4
          [] OTHER -> elifLoop(tokens, r4, Append(cases, <<condition.node, _expr.node>>))

ifExpr(tokens, idx) ==
    LET res == NewParseRusult(idx)
        r1 == Advanced(res)
        condition == expr(tokens, r1.idx)
        r2 == Register(r1, condition)
        r3 == Advanced(r2)
        _expr == expr(tokens, r3.idx)
        r4 == Register(r3, _expr)
        r5 == elifLoop(tokens, r4, << <<condition.node, _expr.node>> >>)
        r6 == Advanced(r5)
        elseCase == expr(tokens, r6.idx)
        r7 == Register(r6, elseCase)
    IN  CASE ~Matches(CurToken(tokens, idx), TT_KEYWORD, "if") ->
               Failure(res, SyntaxErrorAt(tokens, idx, "Expected 'if'"))
          [] HasError(condition) -> r2
          [] ~Matches(CurToken(tokens, r2.idx), TT_KEYWORD, "then") ->
               Failure(r2, SyntaxErrorAt(tokens, r2.idx, "Expected 'then'"))
          [] HasError(_expr) -> r4
          [] HasError(r5) -> r5
          [] ~Matches(CurToken(tokens, r5.idx), TT_KEYWORD, "else") ->
               Success(r5, IfNode(r5.node.cases, NoNode))
          [] HasError(elseCase) -> [r7 EXCEPT !.node = NoNode]
          [] OTHER -> Success(r7, IfNode(r5.node.cases, elseCase.node))

forExpr(tokens, idx) ==
    LET res == NewParseRusult(idx)
        r1 == Advanced(res)
        varNameToken == CurToken(tokens, r1.idx)
        r2 == Advanced(r1)
        r3 == Advanced(r2)
        startNode == expr(tokens, r3.idx)
        r4 == Register(r3, startNode)
        r5 == Advanced(r4)
        endNode == expr(tokens, r5.idx)
        r6 == Register(r5, endNode)
        hasStep == Matches(CurToken(tokens, r6.idx), TT_KEYWORD, "step")
        stepNode == expr(tokens, r6.idx + 1)
        r7 == IF hasStep THEN Register(Advanced(r6), stepNode) ELSE r6
        r8 == Advanced(r7)
        bodyNode == expr(tokens, r8.idx)
        r9 == Register(r8, bodyNode)
    IN  CASE ~Matches(CurToken(tokens, idx), TT_KEYWORD, "for") ->
               Failure(res, SyntaxErrorAt(tokens, idx, "Expected 'for'"))
          [] varNameToken.type # TT_IDENTIFIER ->
               Failure(r1, SyntaxErrorAt(tokens, r1.idx, "Expected identifier"))
          [] CurToken(tokens, r2.idx).type # TT_EQ ->
               Failure(r2, SyntaxErrorAt(tokens, r2.idx, "Expected '='"))
          [] HasError(startNode) -> r4
          [] ~Matches(CurToken(tokens, r4.idx), TT_KEYWORD, "to") ->
               Failure(r4, SyntaxErrorAt(tokens, r4.idx, "Expected 'to'"))
          [] HasError(endNode) -> r6
          [] hasStep /\ HasError(stepNode) -> r7
          [] ~Matches(CurToken(tokens, r7.idx), TT_KEYWORD, "then") ->
               Failure(r7, SyntaxErrorAt(tokens, r7.idx, "Expected 'then'"))
          [] HasError(bodyNode) -> r9
          [] OTHER -> Success(r9, ForNode(varNameToken, startNode.node, endNode.node,
                                          IF hasStep THEN stepNode.node ELSE NoNode,
                                          bodyNode.node))

whileExpr(tokens, idx) ==
    LET res == NewParseRusult(idx)
        r1 == Advanced(res)
        conditionNode == expr(tokens, r1.idx)
        r2 == Register(r1, conditionNode)
        r3 == Advanced(r2)
        bodyNode == expr(tokens, r3.idx)
        r4 == Register(r3, bodyNode)
    IN  CASE ~Matches(CurToken(tokens, idx), TT_KEYWORD, "while") ->
               Failure(res, SyntaxErrorAt(tokens, idx, "Expected 'while'"))
          [] HasError(conditionNode) -> r2
          [] ~Matches(CurToken(tokens, r2.idx), TT_KEYWORD, "then") ->
               Failure(r2, SyntaxErrorAt(tokens, r2.idx, "Expected 'then'"))
          [] HasError(bodyNode) -> r4
          [] OTHER -> Success(r4, WhileNode(conditionNode.node, bodyNode.node))

\* the `while (curToken.type === TT_COMMA)` loop of funDef (938-954); the
\* result's node holds the tokens gathered
argNamesLoop(tokens, res, argNameTokens) ==
    LET r1 == Advanced(res)
    IN  CASE CurToken(tokens, res.idx).type # TT_COMMA ->
               Success(res, [kind |-> "<tokens>", tokens |-> argNameTokens])
          [] CurToken(tokens, r1.idx).type # TT_IDENTIFIER ->
               Failure(r1, SyntaxErrorAt(tokens, r1.idx, "Expected identifier"))
          [] OTHER -> argNamesLoop(tokens, Advanced(r1),
                                   Append(argNameTokens, CurToken(tokens, r1.idx)))

funDef(tokens, idx) ==
    LET res == NewParseRusult(idx)
        r1 == Advanced(res)
        named == CurToken(tokens, r1.idx).type = TT_IDENTIFIER
        varNameToken == IF named THEN CurToken(tokens, r1.idx) ELSE NoToken
        r2 == IF named THEN Advanced(r1) ELSE r1
        r3 == Advanced(r2)
        hasArgs == CurToken(tokens, r3.idx).type = TT_IDENTIFIER
        r4 == IF hasArgs
              THEN argNamesLoop(tokens, Advanced(r3), <<CurToken(tokens, r3.idx)>>)
              ELSE Success(r3, [kind |-> "<tokens>", tokens |-> <<>>])
        r5 == Advanced(r4)
        r6 == Advanced(r5)
        nodeToReturn == expr(tokens, r6.idx)
        r7 == Register(r6, nodeToReturn)
    IN  CASE ~Matches(CurToken(tokens, idx), TT_KEYWORD, "fun") ->
               Failure(res, SyntaxErrorAt(tokens, idx, "Expected 'fun'"))
          [] CurToken(tokens, r2.idx).type # TT_LPAREN ->
               Failure(r2, SyntaxErrorAt(tokens, r2.idx,
                                         IF named THEN "Expected '('"
                                         ELSE "Expected identifier or '('"))
          [] HasError(r4) -> [r4 EXCEPT !.node = NoNode]
          [] CurToken(tokens, r4.idx).type # TT_RPAREN ->
               Failure([r4 EXCEPT !.node = NoNode],
                       SyntaxErrorAt(tokens, r4.idx,
                                     IF hasArgs THEN "Expected ',' or ')'"
                                     ELSE "Expected identifier or ')'"))
          [] CurToken(tokens, r5.idx).type # TT_ARROW ->
               Failure([r5 EXCEPT !.node = NoNode],
                       SyntaxErrorAt(tokens, r5.idx, "Expected '->'"))
          [] HasError(nodeToReturn) -> [r7 EXCEPT !.node = NoNode]
          [] OTHER -> Success(r7, FuncDefNode(varNameToken, r4.node.tokens,
                                              nodeToReturn.node))

\* call (1001-1053) once atom() has returned _atom
callArgs(tokens, idx, _atom) ==
    LET r1 == Register(NewParseRusult(idx), _atom)
        r2 == Advanced(r1)
        first == expr(tokens, r2.idx)
        r3 == Register(r2, first)
        r4 == exprListLoop(tokens, r3, <<first.node>>)
    IN  CASE HasError(_atom) -> r1
          [] CurToken(tokens, r1.idx).type # TT_LPAREN -> Success(r1, _atom.node)
          [] CurToken(tokens, r2.idx).type = TT_RPAREN ->
               Success(Advanced(r2), CallNode(_atom.node, <<>>))
          [] HasError(first) ->
               Failure(r3, SyntaxErrorAt(tokens, r3.idx, ExpectedArgument))
          [] HasError(r4) -> r4
          [] CurToken(tokens, r4.idx).type # TT_RPAREN ->
               Failure([r4 EXCEPT !.node = NoNode],
                       SyntaxErrorAt(tokens, r4.idx, "Expected ',' or ')'"))
          [] OTHER -> Success(Advanced(r4), CallNode(_atom.node, r4.node.nodes))

call(tokens, idx) == callArgs(tokens, idx, atom(tokens, idx))

\* res.register(rule()) and `if (res.hasError()) return res;
\* return res.success(node)`, as atom does for '[', if, for, while and fun
Registered(res, sub) ==
    IF HasError(sub) THEN Register(res, sub)
    ELSE Success(Register(res, sub), sub.node)

atom(tokens, idx) ==
    LET res == NewParseRusult(idx)
        token == CurToken(tokens, idx)
        r1 == Advanced(res)
        _expr == expr(tokens, r1.idx)
        r2 == Register(r1, _expr)
    IN  CASE token.type = TT_INT \/ token.type = TT_FLOAT ->
               Success(Advanced(res), NumberNode(token))
          [] token.type = TT_STRING -> Success(Advanced(res), StringNode(token))
          [] token.type = TT_IDENTIFIER -> Success(Advanced(res), VarAccessNode(token))
          [] token.type = TT_LPAREN /\ HasError(_expr) -> r2
          [] token.type = TT_LPAREN /\ CurToken(tokens, r2.idx).type = TT_RPAREN ->
               Success(Advanced(r2), _expr.node)
          [] token.type = TT_LPAREN ->
               Failure(r2, SyntaxErrorAt(tokens, r2.idx, "Expected ')'"))
          [] token.type = TT_LSQUARE -> Registered(res, listExpr(tokens, idx))
          [] Matches(token, TT_KEYWORD, "if") -> Registered(res, ifExpr(tokens, idx))
          [] Matches(token, TT_KEYWORD, "for") -> Registered(res, forExpr(tokens, idx))
          [] Matches(token, TT_KEYWORD, "while") -> Registered(res, whileExpr(tokens, idx))
          [] Matches(token, TT_KEYWORD, "fun") -> Registered(res, funDef(tokens, idx))
          [] OTHER -> Failure(res, InvalidSyntaxError(token.posStart, token.posEnd,
                                                      ExpectedAtom))

\* The rules from call to expr, each of which starts by calling the one
\* before it unless the current token is a prefix it handles itself.
RuleLevel(name) ==
    CASE name = "call" -> 0
      [] name = "power" -> 1
      [] name = "factor" -> 2
      [] name = "term" -> 3
      [] name = "arithExpr" -> 4
      [] name = "compExpr" -> 5
      [] name = "expr" -> 6

\* factor (1128-1142) at a '+' or '-'
factorSign(tokens, idx) ==
    LET token == CurToken(tokens, idx)
        r1 == Advanced(NewParseRusult(idx))
        _factor == factor(tokens, r1.idx)
        r2 == Register(r1, _factor)
    IN  IF HasError(_factor) THEN r2
        ELSE Success(r2, UnaryOpNode(token, _factor.node))

\* compExpr (1152-1185) at a '!'
compExprNot(tokens, idx) ==
    LET opToken == CurToken(tokens, idx)
        r1 == Advanced(NewParseRusult(idx))
        node == compExpr(tokens, r1.idx)
        r2 == Register(r1, node)
    IN  IF HasError(node) THEN r2
        ELSE Success(r2, UnaryOpNode(opToken, node.node))

\* expr (1187-1241) at a 'var'
exprVar(tokens, idx) ==
    LET r1 == Advanced(NewParseRusult(idx))
        varName == CurToken(tokens, r1.idx)
        r2 == Advanced(r1)
        r3 == Advanced(r2)
        valueNode == expr(tokens, r3.idx)
        r4 == Register(r3, valueNode)
    IN  CASE varName.type # TT_IDENTIFIER ->
               Failure(r1, SyntaxErrorAt(tokens, r1.idx, "Expected identifier"))
          [] CurToken(tokens, r2.idx).type # TT_EQ ->
               Failure(r2, SyntaxErrorAt(tokens, r2.idx, "Expected '='"))
          [] HasError(valueNode) -> r4
          [] OTHER -> Success(r4, VarAssignNode(varName, valueNode.node))

\* `node = res.register(this.binOp(...)); if (res.hasError()) return
\* res.failure(...); return res.success(node)` of compExpr (1170-1184) and
\* expr (1224-1240)
Expected(tokens, idx, node, message) ==
    LET res == Register(NewParseRusult(idx), node)
    IN  IF HasError(node) THEN Failure(res, SyntaxErrorAt(tokens, res.idx, message))
        ELSE Success(res, node.node)

\* What the rule of this level does when the rule before it, which it called
\* at the token of index idx, has returned `below` without an error.
RuleOn(level, tokens, idx, below) ==
    CASE level = 1 -> binOp(tokens, idx, below, {TT_POW}, "factor")
      [] level = 2 -> below
      [] level = 3 -> binOp(tokens, idx, below, {TT_MUL, TT_DIV}, "factor")
      [] level = 4 -> binOp(tokens, idx, below, {TT_PLUS, TT_MINUS}, "term")
      [] level = 5 ->
           Expected(tokens, idx,
                    binOp(tokens, idx, below,
                          {TT_EE, TT_NE, TT_LT, TT_GT, TT_LTE, TT_GTE}, "arithExpr"),
                    ExpectedComp)
      [] level = 6 ->
           Expected(tokens, idx,
                    binOp(tokens, idx, below, {"KEYWORD:&&", "KEYWORD:||"}, "compExpr"),
                    ExpectedExpr)

\* What the rules after `level`, up to `top`, do with an error of the rule of
\* `level`: binOp, power and factor return it, compExpr and expr call
\* res.failure with their own message.
Failed(tokens, idx, level, top, below) ==
    LET comp == IF level < 5 /\ 5 <= top
                THEN Expected(tokens, idx, below, ExpectedComp) ELSE below
    IN  IF level < 6 /\ 6 <= top
        THEN Expected(tokens, idx, comp, ExpectedExpr) ELSE comp

\* What the rule `top` returns when the rule of `level`, which the rules
\* between them called one from the other at the token of index idx, has
\* returned `below`.
Ascend(tokens, idx, level, top, below) ==
    CASE level = top -> below
      [] HasError(below) -> Failed(tokens, idx, level, top, below)
      [] OTHER -> Ascend(tokens, idx, level + 1, top,
                         RuleOn(level + 1, tokens, idx, below))

\* The rule of this name at the token of index idx: the first rule on the
\* way from it down to call that handles the token itself, or else call, and
\* then the rules above that one.
Rule(name, tokens, idx) ==
    LET token == CurToken(tokens, idx)
        top == RuleLevel(name)
    IN  CASE top = 6 /\ Matches(token, TT_KEYWORD, "var") -> exprVar(tokens, idx)
          [] top >= 5 /\ Matches(token, TT_KEYWORD, "!") ->
               Ascend(tokens, idx, 5, top, compExprNot(tokens, idx))
          [] top >= 2 /\ (token.type = TT_PLUS \/ token.type = TT_MINUS) ->
               Ascend(tokens, idx, 2, top, factorSign(tokens, idx))
          [] OTHER -> Ascend(tokens, idx, 0, top, call(tokens, idx))

power(tokens, idx) == Rule("power", tokens, idx)

factor(tokens, idx) == Rule("factor", tokens, idx)

term(tokens, idx) == Rule("term", tokens, idx)

arithExpr(tokens, idx) == Rule("arithExpr", tokens, idx)

compExpr(tokens, idx) == Rule("compExpr", tokens, idx)

expr(tokens, idx) == Rule("expr", tokens, idx)

\* A TypeError of the host: the parser read .type, .matches or .posStart of
\* a token that is undefined.
TypeError(message) == [name |-> "TypeError", message |-> message]

\* parse that returns what expr() returned, whatever the current token is
parseEndAnywhere(tokens, res) ==
    IF \E i \in 1..res.idx : i <= Len(tokens) /\ tokens[i].type = UNDEFINED
    THEN [res EXCEPT !.error = TypeError("Cannot read properties of undefined"),
                     !.node = NoNode]
    ELSE res

\* parse (622-634) once expr() has returned res.  The parser never moves
\* back, so it has read exactly the tokens up to its last index; reading an
\* undefined one throws.
parseEnd(tokens, res) ==
    LET out == IF ~HasError(res) /\ CurToken(tokens, res.idx).type # TT_EOF
               THEN Failure(res, SyntaxErrorAt(tokens, res.idx, ExpectedOperator))
               ELSE res
    IN  IF \E i \in 1..out.idx : i <= Len(tokens) /\ tokens[i].type = UNDEFINED
        THEN [out EXCEPT !.error = TypeError("Cannot read properties of undefined"),
                         !.node = NoNode]
        ELSE out

\* new Parser(tokens).parse()
parse(tokens) == parseEnd(tokens, expr(tokens, 1))

(***************************************************************************)
(* JavaScript numbers.  A number is a fraction n/d in lowest terms with    *)
(* d > 0; d = 0 stands for the values that are no fraction: NaN (n = 0),   *)
(* Infinity (n = 1) and -Infinity (n = -1).  The host computes with 64-bit *)
(* floats.  A float holds a fraction without rounding when its denominator *)
(* is a power of two (IsExact; the numerators of the model stay far below  *)
(* 2^53); any other fraction stands for the float nearest to it, which is  *)
(* what a literal and one correctly rounded operation on exact operands    *)
(* give.  Arithmetic on a rounded operand, a power that is no exact float, *)
(* and a result of -0, for which the model has no value, are left out of   *)
(* the model (NumAddModelled ... NumPowModelled).                          *)
(***************************************************************************)
Abs(x) == IF x < 0 THEN -x ELSE x
Sign(x) == IF x < 0 THEN -1 ELSE IF x > 0 THEN 1 ELSE 0

RECURSIVE Gcd(_, _)
Gcd(a, b) == IF b = 0 THEN a ELSE Gcd(b, a % b)

NaN == [n |-> 0, d |-> 0]
Infinity(sign) == [n |-> sign, d |-> 0]

Frac(n, d) ==
    IF d = 0 THEN NaN
    ELSE LET g == Gcd(Abs(n), Abs(d))
         IN  [n |-> (Sign(d) * n) \div g, d |-> Abs(d) \div g]

\* the number n, a whole number
Whole(n) == [n |-> n, d |-> 1]
IsFinite(x) == x.d # 0
IsNaN(x) == x.d = 0 /\ x.n = 0
IsInteger(x) == x.d = 1
\* x === 0
IsZero(x) == x.d # 0 /\ x.n = 0
NumSign(x) == Sign(x.n)

RECURSIVE IsPowerOfTwo(_)
IsPowerOfTwo(d) == d = 1 \/ (d > 1 /\ d % 2 = 0 /\ IsPowerOfTwo(d \div 2))

\* the float of the host is x itself, not a rounding of x
IsExact(x) == ~IsFinite(x) \/ IsPowerOfTwo(x.d)

\* Two fractions a/b and c/d that differ are at least 1/(b*d) apart, and the
\* floats next to a number below 2^31 / b are less than 2^-21 / b apart.  So
\* rounded fractions whose denominators stay within this bound are different
\* floats whenever they are different fractions, and differ from every exact
\* float of the model; beyond it two fractions may stand for one float
\* (134217728/134217729 is the float 134217727/134217728).
MaxRoundedDenominator == 1024
\* x stands for one float, which no other fraction of the model stands for
IsOneFloat(x) == IsExact(x) \/ x.d <= MaxRoundedDenominator

\* the product or quotient r of x and y is the -0 of the host: a zero whose
\* operands differ in sign (the zeros of the model are all +0)
NegativeZero(x, y, r) == IsZero(r) /\ ((x.n < 0) # (y.n < 0))

\* x + y: exact on exact operands, and x + 0 is x whatever x is
NumAddModelled(x, y) == (IsExact(x) /\ IsExact(y)) \/ IsZero(x) \/ IsZero(y)
NumAdd(x, y) ==
    IF IsNaN(x) \/ IsNaN(y) THEN NaN
    ELSE IF ~IsFinite(x) /\ ~IsFinite(y) THEN (IF x.n = y.n THEN x ELSE NaN)
    ELSE IF ~IsFinite(x) THEN x
    ELSE IF ~IsFinite(y) THEN y
    ELSE Frac(x.n * y.d + y.n * x.d, x.d * y.d)

NumNeg(x) == [n |-> -x.n, d |-> x.d]
NumSubModelled(x, y) == NumAddModelled(x, y)
NumSub(x, y) == NumAdd(x, NumNeg(y))

NumMul(x, y) ==
    IF IsNaN(x) \/ IsNaN(y) THEN NaN
    ELSE IF ~IsFinite(x) \/ ~IsFinite(y)
         THEN (IF NumSign(x) * NumSign(y) = 0 THEN NaN
               ELSE Infinity(NumSign(x) * NumSign(y)))
    ELSE Frac(x.n * y.n, x.d * y.d)

\* x * y: exact on exact operands, and x * 1 and x * -1 whatever x is
NumMulModelled(x, y) ==
    /\ (IsExact(x) /\ IsExact(y)) \/ (\E u \in {x, y} : u \in {Whole(1), Whole(-1)})
    /\ ~NegativeZero(x, y, NumMul(x, y))

\* x / y of the host: a zero divisor gives an infinity or NaN
NumDiv(x, y) ==
    IF IsNaN(x) \/ IsNaN(y) THEN NaN
    ELSE IF ~IsFinite(x) THEN (IF ~IsFinite(y) THEN NaN
                               ELSE Infinity(NumSign(x) * (IF NumSign(y) < 0 THEN -1 ELSE 1)))
    ELSE IF ~IsFinite(y) THEN Whole(0)
    ELSE IF y.n = 0 THEN (IF x.n = 0 THEN NaN ELSE Infinity(NumSign(x)))
    ELSE Frac(x.n * y.d, x.d * y.n)

\* x / y: the quotient of exact operands is rounded once, so the fraction
\* stands for it; x / 1 and x / -1 are exact whatever x is
NumDivModelled(x, y) ==
    /\ (IsExact(x) /\ IsExact(y)) \/ y \in {Whole(1), Whole(-1)}
    /\ ~NegativeZero(x, y, NumDiv(x, y))
    /\ IsOneFloat(NumDiv(x, y))

RECURSIVE IntPow(_, _)
IntPow(b, e) == IF e = 0 THEN 1 ELSE b * IntPow(b, e - 1)

\* x ** y for a whole exponent and a result that is an exact float: the
\* power of the host is not rounded correctly, so a result such as 1/49 is
\* left out of the model, as a fractional or infinite exponent is
\* (NotModelled)
NumPowModelled(x, y) ==
    /\ IsFinite(x) /\ IsFinite(y) /\ IsInteger(y)
    /\ IsPowerOfTwo(x.d)
    /\ y.n >= 0 \/ x.n = 0 \/ IsPowerOfTwo(Abs(x.n))
NumPow(x, y) ==
    IF y.n >= 0 THEN Frac(IntPow(x.n, y.n), IntPow(x.d, y.n))
    ELSE IF x.n = 0 THEN Infinity(1)
    ELSE Frac(IntPow(x.d, -y.n), IntPow(x.n, -y.n))

\* x === y, x < y, x <= y on floats: the comparison of the fractions, as
\* long as each stands for one float that no other fraction stands for
NumEqModelled(x, y) == IsOneFloat(x) /\ IsOneFloat(y)
NumEq(x, y) == ~IsNaN(x) /\ ~IsNaN(y) /\ x = y
NumLtModelled(x, y) == NumEqModelled(x, y)
NumLt(x, y) ==
    IF IsNaN(x) \/ IsNaN(y) THEN FALSE
    ELSE IF ~IsFinite(x) THEN x.n < 0 /\ x # y
    ELSE IF ~IsFinite(y) THEN y.n > 0
    ELSE x.n * y.d < y.n * x.d
NumLte(x, y) == NumLt(x, y) \/ NumEq(x, y)

\* Boolean(x): zero and NaN are false
NumTruthy(x) == ~IsZero(x) /\ ~IsNaN(x)

Digit(c) ==
    CASE c = "0" -> 0 [] c = "1" -> 1 [] c = "2" -> 2 [] c = "3" -> 3
      [] c = "4" -> 4 [] c = "5" -> 5 [] c = "6" -> 6 [] c = "7" -> 7
      [] c = "8" -> 8 [] c = "9" -> 9

DigitChar(n) ==
    CASE n = 0 -> "0" [] n = 1 -> "1" [] n = 2 -> "2" [] n = 3 -> "3"
      [] n = 4 -> "4" [] n = 5 -> "5" [] n = 6 -> "6" [] n = 7 -> "7"
      [] n = 8 -> "8" [] n = 9 -> "9"

RECURSIVE DigitsValue(_, _)
DigitsValue(chars, acc) ==
    IF chars = <<>> THEN acc
    ELSE DigitsValue(Tail(chars), acc * 10 + Digit(Head(chars)))

\* parseInt(chars, 10) on the text of an INT token: digits only
parseInt(chars) == Whole(DigitsValue(chars, 0))

\* parseFloat(chars) on the text of a FLOAT token: digits with one "."; a
\* lone "." is NaN.  The float is the one nearest to the fraction written.
parseFloat(chars) ==
    LET dot == CHOOSE i \in 1..Len(chars) : chars[i] = "."
        whole == SubSeq(chars, 1, dot - 1)
        frac == SubSeq(chars, dot + 1, Len(chars))
    IN  IF Len(chars) = 1 THEN NaN
        ELSE Frac(DigitsValue(whole \o frac, 0), IntPow(10, Len(frac)))
parseFloatModelled(chars) == IsOneFloat(parseFloat(chars))

RECURSIVE NatChars(_)
NatChars(n) ==
    IF n < 10 THEN <<DigitChar(n)>>
    ELSE Append(NatChars(n \div 10), DigitChar(n % 10))

\* Number.prototype.toString() of a whole number; the digits of a fraction
\* are left out of the model
NumToStringModelled(x) == IsFinite(x) /\ IsInteger(x)
NumToString(x) == IF x.n < 0 THEN <<"-">> \o NatChars(-x.n) ELSE NatChars(x.n)

(***************************************************************************)
(* Values: src/basic.ts 1295-2134.  Every value is a record of one shape;  *)
(* type names the class.  BoolValue and NullValue extend NumberValue.      *)
(* A ListValue holds the address of its elements array in the heap of      *)
(* arrays, since copy() hands the same array to the copy (2113).           *)
(* context is the index of a BasicContext among the contexts, 0 for none.  *)
(* id names the object: 0 while no table and no array has held it, and     *)
(* from then on its index among the objects of the state (see Hold).       *)
(***************************************************************************)
NoPosition == [index |-> -1, row |-> -1, col |-> -1]

BlankValue ==
    [type |-> "", value |-> Whole(0), isInt |-> FALSE, str |-> <<>>,
     elements |-> 0, name |-> "", argNames |-> <<>>, bodyNode |-> NoNode,
     posStart |-> NoPosition, posEnd |-> NoPosition, context |-> 0, id |-> 0]

\* the host's null and undefined, and a member of Object.prototype
HostNull == [BlankValue EXCEPT !.type = NULL]
HostUndefined == [BlankValue EXCEPT !.type = UNDEFINED]
HostObject == [BlankValue EXCEPT !.type = "<Object.prototype member>"]
IsHostValue(v) == v.type \in {HostNull.type, HostUndefined.type, HostObject.type}

NumberValue(value, isInt) ==
    [BlankValue EXCEPT !.type = "Number", !.value = value, !.isInt = isInt]
\* new BoolValue(b): _getValue turns the boolean into 1 or 0
BoolValue(b) ==
    [BlankValue EXCEPT !.type = "Bool", !.value = Whole(IF b THEN 1 ELSE 0),
                       !.isInt = TRUE]
NullValue == [BlankValue EXCEPT !.type = "Null", !.value = Whole(0), !.isInt = TRUE]
StringValue(str) == [BlankValue EXCEPT !.type = "String", !.str = str]
ListValue(elements) == [BlankValue EXCEPT !.type = "List", !.elements = elements]
\* this.name = name || "<anonymous>" (1682)
FunctionValue(name, bodyNode, argNames) ==
    [BlankValue EXCEPT !.type = "Function",
                       !.name = IF name = "" THEN "<anonymous>" ELSE name,
                       !.bodyNode = bodyNode, !.argNames = argNames]
BuiltInFunction(name, argNames) ==
    [BlankValue EXCEPT !.type = "BuiltIn", !.name = name, !.argNames = argNames]

\* v instanceof NumberValue / BaseFunction
IsNumberValue(v) == v.type \in {"Number", "Bool", "Null"}
IsBaseFunction(v) == v.type \in {"Function", "BuiltIn"}

setPos(v, posStart, posEnd) == [v EXCEPT !.posStart = posStart, !.posEnd = posEnd]
setPosWithNode(v, node) == setPos(v, node.posStart, node.posEnd)
setContext(v, context) == [v EXCEPT !.context = context]

\* copy(): a new object.  BoolValue and NullValue build the copy from the
\* value alone and keep the context but not the span (1648, 1666)
copy(v) ==
    CASE v.type = "Bool" ->
            [BlankValue EXCEPT !.type = "Bool", !.value = v.value, !.isInt = TRUE,
                               !.context = v.context]
      [] v.type = "Null" -> setContext(NullValue, v.context)
      [] OTHER -> [v EXCEPT !.id = 0]

\* toNumber()
toNumber(v) ==
    CASE v.type = "Number" -> v.value
      [] v.type = "Bool" -> Whole(IF NumTruthy(v.value) THEN 1 ELSE 0)
      [] v.type = "Null" -> Whole(0)
      [] v.type = "String" -> Whole(IF Len(v.str) > 0 THEN 1 ELSE 0)
      [] v.type = "List" -> Whole(1)
      [] IsBaseFunction(v) -> Whole(1)

\* isTrue()
isTrue(v) ==
    CASE IsNumberValue(v) -> NumTruthy(v.value)
      [] v.type = "String" -> Len(v.str) > 0
      [] v.type = "List" -> TRUE
      [] IsBaseFunction(v) -> TRUE

(***************************************************************************)
(* Runtime errors: src/basic.ts 92-128                                     *)
(***************************************************************************)
RTError(posStart, posEnd, message, context) ==
    [name |-> "Runtime Error", posStart |-> posStart, posEnd |-> posEnd,
     message |-> message, context |-> context]

\* an exception of the host other than a TypeError
RangeError(message) == [name |-> "RangeError", message |-> message]

\* The evaluation ran out of the model's step budget: the program runs on
\* (or overflows the host's stack) past what the model follows.
Diverges == [name |-> "<diverges>"]
\* The evaluation reached an operation of the host that the model does not
\* follow (see NumPowModelled, NumToStringModelled, ...).
NotModelled(what) == [name |-> "<not modelled>", message |-> what]

(***************************************************************************)
(* The state an evaluation works on:                                       *)
(*   tables    the SymbolTable objects: parent (0 for none) and symbols;   *)
(*             table 1 is globalSymbolTable                                *)
(*   contexts  the BasicContext objects; context 1 is <program>            *)
(*   arrays    the elements arrays of the ListValues                       *)
(*   objects   the value objects a table or an array has held              *)
(*   fuel      how many more nodes the model follows the evaluation for    *)
(* An evaluation step hands back the state, the value and the error, if    *)
(* any: an RTError handed back by failure() or thrown, or an exception of  *)
(* the host.  Both kinds leave run() as an exception.                      *)
(***************************************************************************)
Ok(st, value) == [st |-> st, value |-> value, error |-> NoError]
Throw(st, error) == [st |-> st, value |-> HostNull, error |-> error]

\* reading a property of null or undefined, or calling what is no function
NullTypeError == TypeError("Cannot read properties of null")

\* SymbolTable: src/basic.ts 2137-2158.  symbols is a plain object, so a
\* name it does not hold itself is looked up in Object.prototype.
ObjectPrototypeNames ==
    {"constructor", "toString", "valueOf", "hasOwnProperty", "isPrototypeOf",
     "propertyIsEnumerable", "toLocaleString", "__defineGetter__",
     "__defineSetter__", "__lookupGetter__", "__lookupSetter__", "__proto__"}

\* this.symbols[name]
SymbolsAt(symbols, name) ==
    IF name \in DOMAIN symbols THEN symbols[name]
    ELSE IF name \in ObjectPrototypeNames THEN HostObject
    ELSE HostUndefined

RECURSIVE SymbolTableGet(_, _, _)
SymbolTableGet(tables, t, name) ==
    LET own == SymbolsAt(tables[t].symbols, name)
        value == IF own.type \in {NULL, UNDEFINED} THEN HostNull ELSE own
    IN  IF value.type = NULL /\ tables[t].parent # 0
        THEN SymbolTableGet(tables, tables[t].parent, name)
        ELSE value

\* symbols["__proto__"] = value adds no key: it makes value the prototype
\* of symbols, whose properties every later lookup inherits.  The model
\* holds no prototype per table, so it follows no evaluation past that set.
SymbolsSetModelled(name) == name # "__proto__"

\* set that keeps the value of a name already bound
SymbolsSetOnce(symbols, name, value) ==
    [n \in DOMAIN symbols \cup {name} |->
        IF n \in DOMAIN symbols THEN symbols[n] ELSE value]

\* symbols[name] = value (2151-2153)
SymbolsSet(symbols, name, value) ==
    IF ~SymbolsSetModelled(name) THEN symbols
    ELSE [n \in DOMAIN symbols \cup {name} |-> IF n = name THEN value ELSE symbols[n]]

\* a set that writes to the first table, the global one, whatever t is
SymbolTableSetGlobal(st, t, name, value) ==
    [st EXCEPT !.tables[1].symbols = SymbolsSet(@, name, value)]

\* table.set(name, value) on the table t
SymbolTableSet(st, t, name, value) ==
    [st EXCEPT !.tables[t].symbols = SymbolsSet(@, name, value)]

\* table.del(name) on the table t: delete symbols[name] (2155-2157).  Nothing
\* in the interpreter calls it.
SymbolTableDel(st, t, name) ==
    [st EXCEPT !.tables[t].symbols = [n \in DOMAIN @ \ {name} |-> @[n]]]

NewSymbolTable(st, parent) ==
    [st EXCEPT !.tables = Append(@, [parent |-> parent, symbols |-> <<>>])]

\* BasicContext: src/basic.ts 2161-2168
BasicContext(contextName, parent, parentEntryPos, symbolTable) ==
    [contextName |-> contextName, parent |-> parent,
     parentEntryPos |-> parentEntryPos, symbolTable |-> symbolTable]

(***************************************************************************)
(* The values of the program are objects: setPos, setPosWithNode and       *)
(* setContext (1300-1315) write into the object, and every table and array *)
(* that holds the object shows what was written.  Most steps hand on a new *)
(* object or a copy; visitVarAssignNode and visitFuncDefNode hand on the   *)
(* object they stored, ListValue.div the element itself, and the and / or  *)
(* of numbers, lists and functions one of their operands.  An object gets  *)
(* its id when a table or an array first holds it; st.objects[id] is the   *)
(* object as it is now, and every holder has that same record.             *)
(***************************************************************************)
\* the object as it is now, for a value handed on before later steps wrote
\* into the object
Refresh(st, value) == IF value.id # 0 THEN st.objects[value.id] ELSE value

\* the state after a write into an object: its holders show the object
Written(st, object) ==
    IF object.id = 0 THEN st
    ELSE [st EXCEPT
            !.objects[object.id] = object,
            !.tables = [t \in DOMAIN st.tables |->
                          [st.tables[t] EXCEPT !.symbols =
                              [n \in DOMAIN st.tables[t].symbols |->
                                  IF st.tables[t].symbols[n].id = object.id THEN object
                                  ELSE st.tables[t].symbols[n]]]],
            !.arrays = [a \in DOMAIN st.arrays |->
                          [i \in DOMAIN st.arrays[a] |->
                              IF st.arrays[a][i].id = object.id THEN object
                              ELSE st.arrays[a][i]]]]

\* a table or an array is about to hold the value: an object not held
\* before gets its id, one held before is written as it is handed in.  The
\* host's null and undefined are no objects.
Hold(st, value) ==
    IF IsHostValue(value) THEN Ok(st, value)
    ELSE IF value.id = 0
    THEN LET object == [value EXCEPT !.id = Len(st.objects) + 1]
         IN  Ok([st EXCEPT !.objects = Append(@, object)], object)
    ELSE Ok(Written(st, value), value)

\* the values from i on as they are now, each held
RECURSIVE HoldAll(_, _, _)
HoldAll(st, values, i) ==
    IF i > Len(values) THEN [st |-> st, values |-> values]
    ELSE LET held == Hold(st, Refresh(st, values[i]))
         IN  HoldAll(held.st, [values EXCEPT ![i] = held.value], i + 1)

\* new ListValue(elements): a new array of the objects collected
NewArray(st, elements) ==
    LET held == HoldAll(st, elements, 1)
    IN  [held.st EXCEPT !.arrays = Append(@, held.values)]

\* elements.unshift(value): the value becomes the first element
ArrayUnshift(st, addr, value) ==
    LET held == Hold(st, value)
    IN  [held.st EXCEPT !.arrays[addr] = <<held.value>> \o @]

\* elements.push(value) on the array at addr
ArrayPush(st, addr, value) ==
    LET held == Hold(st, value)
    IN  [held.st EXCEPT !.arrays[addr] = Append(@, held.value)]

\* BasicValue.illegalOperation (1317-1324): throws
illegalOperation(st, this) ==
    Throw(st, RTError(this.posStart, this.posEnd, "Illegal operation", this.context))

(***************************************************************************)
(* NumberValue, BoolValue, NullValue: src/basic.ts 1503-1677               *)
(***************************************************************************)
BothInt(this, other) == this.isInt /\ IsNumberValue(other) /\ other.isInt

NumberValueOp(op, this, other, st) ==
    LET a == toNumber(this)
        b == toNumber(other)
        number(x) == Ok(st, setContext(NumberValue(x, BothInt(this, other)), this.context))
        bool(x) == Ok(st, setContext(BoolValue(x), this.context))
    IN  CASE op = "&&" -> Ok(st, IF ~isTrue(this) THEN this ELSE other)
          [] op = "||" -> Ok(st, IF isTrue(this) THEN this ELSE other)
          [] op \notin {"&&", "||"} /\ IsHostValue(other) -> Throw(st, NullTypeError)
          [] OTHER ->
             CASE op = TT_PLUS ->
                    IF NumAddModelled(a, b) THEN number(NumAdd(a, b))
                    ELSE Throw(st, NotModelled("+ on a rounded fraction"))
               [] op = TT_MINUS ->
                    IF NumSubModelled(a, b) THEN number(NumSub(a, b))
                    ELSE Throw(st, NotModelled("- on a rounded fraction"))
               [] op = TT_MUL ->
                    IF NumMulModelled(a, b) THEN number(NumMul(a, b))
                    ELSE Throw(st, NotModelled("* on a rounded fraction, or -0"))
               [] op = TT_DIV ->
                    IF IsZero(b)
                    THEN Throw(st, RTError(other.posStart, other.posEnd,
                                           "Division by zero", this.context))
                    ELSE IF NumDivModelled(a, b) THEN number(NumDiv(a, b))
                    ELSE Throw(st, NotModelled("/ on a rounded fraction, or -0"))
               [] op = TT_POW ->
                    IF NumPowModelled(a, b) THEN number(NumPow(a, b))
                    ELSE Throw(st, NotModelled("** with a result that is no exact float"))
               [] op \in {TT_EE, TT_NE, TT_LT, TT_GT, TT_LTE, TT_GTE} ->
                    IF ~NumEqModelled(a, b)
                    THEN Throw(st, NotModelled("a comparison of fractions that may be one float"))
                    ELSE CASE op = TT_EE -> bool(NumEq(a, b))
                           [] op = TT_NE -> bool(~NumEq(a, b))
                           [] op = TT_LT -> bool(NumLt(a, b))
                           [] op = TT_GT -> bool(NumLt(b, a))
                           [] op = TT_LTE -> bool(NumLte(a, b))
                           [] op = TT_GTE -> bool(NumLte(b, a))

(***************************************************************************)
(* StringValue: src/basic.ts 1346-1501                                     *)
(***************************************************************************)
\* The characters in the order of their codes, as far as the model's texts
\* use them.
CharsInOrder ==
    <<"\t", "\n", " ", "!", "\"", "&", "(", ")", "*", "+", ",", "-", ".", "/",
      "0", "1", "2", "3", "4", "5", "6", "7", "8", "9", "<", "=", ">",
      "A", "B", "C", "D", "E", "F", "G", "H", "I", "J", "K", "L", "M",
      "N", "O", "P", "Q", "R", "S", "T", "U", "V", "W", "X", "Y", "Z",
      "[", "\\", "]", "_",
      "a", "b", "c", "d", "e", "f", "g", "h", "i", "j", "k", "l", "m",
      "n", "o", "p", "q", "r", "s", "t", "u", "v", "w", "x", "y", "z", "|">>
CharRank(c) == CHOOSE i \in 1..Len(CharsInOrder) : CharsInOrder[i] = c

\* x < y on two strings
RECURSIVE StrLt(_, _)
StrLt(x, y) ==
    IF y = <<>> THEN FALSE
    ELSE IF x = <<>> THEN TRUE
    ELSE IF Head(x) = Head(y) THEN StrLt(Tail(x), Tail(y))
    ELSE CharRank(Head(x)) < CharRank(Head(y))

\* Number(str), the conversion a comparison of a string with a number makes:
\* the empty string is 0, digits with at most one "." are that number, and
\* other letters are NaN.  Signs, exponents, radix prefixes and white space
\* (which Number trims: blank, tab, newline, "\r", "\f" and the like) are
\* left out of the model, as is every character CharsInOrder does not list.
StrToNumber(str) ==
    IF str = <<>> THEN Whole(0)
    ELSE IF /\ \A i \in 1..Len(str) : IsDigitChar(str[i])
            /\ Cardinality({i \in 1..Len(str) : str[i] = "."}) <= 1
            /\ \E i \in 1..Len(str) : str[i] # "."
    THEN (IF \E i \in 1..Len(str) : str[i] = "." THEN parseFloat(str)
          ELSE parseInt(str))
    ELSE NaN
StrToNumberModelled(str) ==
    /\ \A i \in 1..Len(str) :
          /\ \E k \in 1..Len(CharsInOrder) : CharsInOrder[k] = str[i]
          /\ str[i] \notin {"+", "-", " ", "\t", "\n", "\r", "\f", "e", "E", "x", "X",
                            "o", "O", "b", "B", "I"}
    /\ IsOneFloat(StrToNumber(str))

\* str.repeat(count) for a count above -1, which is truncated to a whole number
RECURSIVE Repeat(_, _)
Repeat(str, count) == IF count <= 0 THEN <<>> ELSE str \o Repeat(str, count - 1)

\* this.value <op> other.value where other is a string or a number
StringCompare(op, this, other) ==
    IF other.type = "String"
    THEN CASE op = TT_EE -> this.str = other.str
           [] op = TT_NE -> this.str # other.str
           [] op = TT_LT -> StrLt(this.str, other.str)
           [] op = TT_GT -> StrLt(other.str, this.str)
           [] op = TT_LTE -> ~StrLt(other.str, this.str)
           [] op = TT_GTE -> ~StrLt(this.str, other.str)
    ELSE LET a == StrToNumber(this.str)
             b == other.value
         IN  CASE op = TT_EE -> FALSE
               [] op = TT_NE -> TRUE
               [] op = TT_LT -> NumLt(a, b)
               [] op = TT_GT -> NumLt(b, a)
               [] op = TT_LTE -> NumLte(a, b)
               [] op = TT_GTE -> NumLte(b, a)

StringValueOp(op, this, other, st) ==
    LET string(s) == Ok(st, setContext(StringValue(s), this.context))
        number == Ok(st, setContext(NumberValue(other.value, other.isInt), this.context))
    IN  CASE op \in {TT_MINUS, TT_DIV, TT_POW} ->
               IF IsHostValue(other) THEN Throw(st, NullTypeError)
               ELSE Throw(st, RTError(other.posEnd, other.posEnd,
                                      CASE op = TT_MINUS -> "string - string"
                                        [] op = TT_DIV -> "string / string"
                                        [] op = TT_POW -> "string ** string",
                                      this.context))
          [] op = TT_PLUS ->
               IF other.type = "String" THEN string(this.str \o other.str)
               ELSE IF IsNumberValue(other)
               THEN (IF NumToStringModelled(other.value)
                     THEN string(this.str \o NumToString(other.value))
                     ELSE Throw(st, NotModelled("the digits of a fraction")))
               ELSE illegalOperation(st, this)
          [] op = TT_MUL ->
               IF IsNumberValue(other)
               THEN (IF IsNaN(other.value) THEN string(<<>>)
                     ELSE IF ~IsFinite(other.value) \/ other.value.n <= -other.value.d
                     THEN Throw(st, RangeError("Invalid count value"))
                     ELSE string(Repeat(this.str, other.value.n \div other.value.d)))
               ELSE illegalOperation(st, this)
          [] op \in {TT_EE, TT_NE, TT_LT, TT_GT, TT_LTE, TT_GTE} ->
               IF other.type = "String" \/ IsNumberValue(other)
               THEN (IF other.type = "String" \/ op \in {TT_EE, TT_NE}
                        \/ (StrToNumberModelled(this.str)
                            /\ NumLtModelled(StrToNumber(this.str), other.value))
                     THEN Ok(st, setContext(BoolValue(StringCompare(op, this, other)),
                                            this.context))
                     ELSE Throw(st, NotModelled("Number(string)")))
               ELSE illegalOperation(st, this)
          [] op = "&&" ->
               IF other.type = "String"
               THEN string(IF isTrue(this) THEN other.str ELSE this.str)
               ELSE IF IsNumberValue(other)
               THEN (IF ~isTrue(this) THEN string(this.str) ELSE number)
               ELSE illegalOperation(st, this)
          [] op = "||" ->
               IF other.type = "String"
               THEN string(IF isTrue(this) THEN this.str ELSE other.str)
               ELSE IF IsNumberValue(other)
               THEN (IF isTrue(this) THEN string(this.str) ELSE number)
               ELSE illegalOperation(st, this)

(***************************************************************************)
(* BaseFunction operators: src/basic.ts 1749-1859                          *)
(***************************************************************************)
BaseFunctionOp(op, this, other, st) ==
    CASE op = "&&" -> Ok(st, IF ~isTrue(this) THEN this ELSE other)
      [] op = "||" -> Ok(st, IF isTrue(this) THEN this ELSE other)
      [] op = TT_GTE ->
           IF IsHostValue(other) THEN Throw(st, NullTypeError)
           ELSE Throw(st, RTError(other.posStart, other.posEnd,
                                  "Uncaught SyntaxError: Unexpected token '>='",
                                  this.context))
      [] OTHER -> illegalOperation(st, this)

(***************************************************************************)
(* ListValue: src/basic.ts 2011-2134                                       *)
(***************************************************************************)
\* elements.splice(start, 1): start is truncated to a whole number, counts
\* from the end when negative, and removes nothing past the end
Splice1(elements, start) ==
    LET len == Len(elements)
        whole == IF ~IsFinite(start)
                 THEN (IF start.n > 0 THEN len ELSE 0)
                 ELSE Sign(start.n) * (Abs(start.n) \div start.d)
        at == IF whole < 0 THEN (IF len + whole < 0 THEN 0 ELSE len + whole)
              ELSE IF whole > len THEN len ELSE whole
    IN  SubSeq(elements, 1, at) \o SubSeq(elements, at + 2, len)

\* elements[index]
ElementAt(elements, index) ==
    IF IsFinite(index) /\ IsInteger(index) /\ index.n >= 0 /\ index.n < Len(elements)
    THEN elements[index.n + 1]
    ELSE HostUndefined

ListValueOp(op, this, other, st) ==
    CASE op = TT_PLUS -> Ok(ArrayPush(st, this.elements, other), copy(this))
      [] op = TT_MINUS ->
           IF IsNumberValue(other)
           THEN Ok([st EXCEPT !.arrays[this.elements] = Splice1(@, other.value)],
                   copy(this))
           ELSE illegalOperation(st, this)
      [] op = TT_DIV ->
           IF IsNumberValue(other)
           THEN Ok(st, ElementAt(st.arrays[this.elements], other.value))
           ELSE illegalOperation(st, this)
      [] op = TT_GTE -> Ok(st, setContext(BoolValue(TRUE), this.context))
      [] op = "&&" -> Ok(st, IF ~isTrue(this) THEN this ELSE other)
      [] op = "||" -> Ok(st, IF isTrue(this) THEN this ELSE other)
      [] OTHER -> illegalOperation(st, this)

\* left.add(right), left.sub(right), ...: the method of left's class
BinaryOp(op, left, right, st) ==
    CASE IsNumberValue(left) -> NumberValueOp(op, left, right, st)
      [] left.type = "String" -> StringValueOp(op, left, right, st)
      [] left.type = "List" -> ListValueOp(op, left, right, st)
      [] IsBaseFunction(left) -> BaseFunctionOp(op, left, right, st)
      [] OTHER -> Throw(st, NullTypeError)

\* value.not()
not(value) ==
    CASE IsNumberValue(value) ->
           setContext(BoolValue(~NumTruthy(value.value)), value.context)
      [] value.type = "String" -> setContext(BoolValue(value.str = <<>>), value.context)
      [] value.type = "List" -> setContext(BoolValue(FALSE), value.context)
      [] IsBaseFunction(value) -> setContext(NumberValue(Whole(0), TRUE), value.context)

(***************************************************************************)
(* BaseFunction, FunctionValue, BuiltInFunction: src/basic.ts 1679-2009    *)
(***************************************************************************)
\* getFunContext (1685-1692): a new context whose parent is the function
\* value's context, with a new symbol table whose parent is that context's
\* table.  The new context is the last of st.contexts, its table the last
\* of st.tables.
getFunContext(this, st) ==
    LET st1 == NewSymbolTable(st, st.contexts[this.context].symbolTable)
    IN  [st1 EXCEPT !.contexts =
            Append(@, BasicContext(this.name, this.context, this.posStart,
                                   Len(st1.tables)))]

ArityMessage(this, args, what) ==
    Str(NatChars(Len(args))) \o " - " \o Str(NatChars(Len(this.argNames)))
        \o " too " \o what \o " args passed into '" \o this.name \o "'"

\* checkArgs without its second test: too few arguments pass
checkArgsTooManyOnly(this, args, st) ==
    IF Len(args) > Len(this.argNames)
    THEN Throw(st, RTError(this.posStart, this.posEnd,
                           ArityMessage(this, args, "many"), this.context))
    ELSE Ok(st, NullValue)

\* checkArgs (1695-1721)
checkArgs(this, args, st) ==
    IF Len(args) > Len(this.argNames)
    THEN Throw(st, RTError(this.posStart, this.posEnd,
                           ArityMessage(this, args, "many"), this.context))
    ELSE IF Len(args) < Len(this.argNames)
    THEN Throw(st, RTError(this.posStart, this.posEnd,
                           ArityMessage(this, args, "few"), this.context))
    ELSE Ok(st, NullValue)

\* populateArgs (1724-1735), from argument i on
RECURSIVE populateArgs(_, _, _, _, _)
populateArgs(this, args, funContext, i, st) ==
    IF i > Len(args) THEN Ok(st, NullValue)
    ELSE IF IsHostValue(args[i]) THEN Throw(st, NullTypeError)
    ELSE IF ~SymbolsSetModelled(this.argNames[i]) THEN Throw(st, NotModelled("a binding named __proto__"))
    ELSE LET held == Hold(st, setContext(Refresh(st, args[i]), funContext))
         IN  populateArgs(this, args, funContext, i + 1,
                          SymbolTableSet(held.st, st.contexts[funContext].symbolTable,
                                         this.argNames[i], held.value))

\* checkAndPopulateArgs (1737-1747)
checkAndPopulateArgs(this, args, funContext, st) ==
    LET checked == checkArgs(this, args, st)
    IN  IF HasError(checked) THEN checked
        ELSE populateArgs(this, args, funContext, 1, st)

\* The native implementations (1929-2008), by name, run in funContext.
BuiltInMethod(self, funContext, st) ==
    LET table == st.contexts[funContext].symbolTable
        arg1 == SymbolTableGet(st.tables, table, self.argNames[1])
        bool(b) == Ok(st, BoolValue(b))
    IN  CASE self.name = "isList" -> bool(arg1.type = "List")
          [] self.name = "isString" -> bool(arg1.type = "String")
          [] self.name = "isNumber" -> bool(IsNumberValue(arg1))
          [] self.name = "isInt" -> bool(IsNumberValue(arg1) /\ arg1.isInt)
          [] self.name = "isFloat" -> bool(IsNumberValue(arg1) /\ ~arg1.isInt)
          [] self.name = "isFunction" -> bool(arg1.type = "Function")
          [] self.name = "append" ->
               LET arg2 == SymbolTableGet(st.tables, table, "value")
               IN  IF arg1.type # "List"
                   THEN Throw(st, RTError(self.posStart, self.posEnd,
                                          "First argument must be list", funContext))
                   ELSE LET st1 == ArrayPush(st, arg1.elements, arg2)
                        IN  Ok(st1, NumberValue(Whole(Len(st1.arrays[arg1.elements])),
                                                TRUE))

(***************************************************************************)
(* Interpreter: src/basic.ts 2174-2470                                     *)
(***************************************************************************)
RECURSIVE visit(_, _, _), visitListNode(_, _, _), visitNodes(_, _, _, _, _),
          visitCallNode(_, _, _), exceute(_, _, _), visitWhileNode(_, _, _),
          whileLoop(_, _, _, _), visitForNode(_, _, _),
          forLoop(_, _, _, _, _, _, _, _), visitIfNode(_, _, _),
          ifCases(_, _, _, _), visitVarAssignNode(_, _, _),
          visitBinOpNode(_, _, _), visitUnaryOpNode(_, _, _),
          visitNodesAll(_, _, _, _, _)

\* a loop over the nodes that goes on after an error and reports the first
visitNodesAll(nodes, i, context, st, values) ==
    IF i > Len(nodes) THEN [st |-> st, values |-> values, error |-> NoError]
    ELSE LET r == visit(nodes[i], context, st)
         IN  IF HasError(r)
             THEN [visitNodesAll(nodes, i + 1, context, r.st, values)
                       EXCEPT !.error = r.error]
             ELSE visitNodesAll(nodes, i + 1, context, r.st, Append(values, r.value))

\* Evaluate nodes[i..] in order into the values after `values`; the result's
\* value field is not used, its values field holds the values.
visitNodes(nodes, i, context, st, values) ==
    IF i > Len(nodes) THEN [st |-> st, values |-> values, error |-> NoError]
    ELSE LET r == visit(nodes[i], context, st)
         IN  IF HasError(r) THEN [st |-> r.st, values |-> values, error |-> r.error]
             ELSE visitNodes(nodes, i + 1, context, r.st, Append(values, r.value))

visitListNode(node, context, st) ==
    LET r == visitNodes(node.elementNodes, 1, context, st, <<>>)
        st1 == NewArray(r.st, r.values)
    IN  IF HasError(r) THEN Throw(r.st, r.error)
        ELSE Ok(st1, setPosWithNode(setContext(ListValue(Len(st1.arrays)), context),
                                    node))

visitStringNode(node, context, st) ==
    Ok(st, setPosWithNode(setContext(StringValue(node.token.value), context), node))

RECURSIVE TokenNames(_)
\* node.argNameTokens.map((t) => t.value)
TokenNames(tokens) ==
    IF tokens = <<>> THEN <<>>
    ELSE <<Str(Head(tokens).value)>> \o TokenNames(Tail(tokens))

visitFuncDefNode(node, context, st) ==
    LET named == node.varNameToken.type # NULL
        funcName == IF named THEN Str(node.varNameToken.value) ELSE ""
        funcValue == setPosWithNode(
                        setContext(FunctionValue(funcName, node.bodyNode,
                                                 TokenNames(node.argNameTokens)),
                                   context),
                        node)
        held == Hold(st, funcValue)
    IN  IF named /\ ~SymbolsSetModelled(funcName)
        THEN Throw(st, NotModelled("a binding named __proto__"))
        ELSE IF named
        THEN Ok(SymbolTableSet(held.st, st.contexts[context].symbolTable, funcName,
                               held.value),
                held.value)
        ELSE Ok(st, funcValue)

\* FunctionValue.exceute (1884-1897) and BuiltInFunction.exceute (1909-1920)
exceute(this, args, st) ==
    LET st1 == getFunContext(this, st)
        funContext == Len(st1.contexts)
        populated == checkAndPopulateArgs(this, args, funContext, st1)
    IN  IF HasError(populated) THEN populated
        ELSE IF this.type = "Function"
        THEN visit(this.bodyNode, funContext, populated.st)
        ELSE BuiltInMethod(this, funContext, populated.st)

visitCallNode(node, context, st) ==
    LET called == visit(node.nodeToCall, context, st)
        valueToCall == setContext(setPosWithNode(copy(called.value), node), context)
        args == visitNodes(node.argNodes, 1, context, called.st, <<>>)
        returned == exceute(valueToCall, args.values, args.st)
    IN  IF HasError(called) THEN called
        ELSE IF IsHostValue(called.value) THEN Throw(called.st, NullTypeError)
        ELSE IF HasError(args) THEN Throw(args.st, args.error)
        ELSE IF ~IsBaseFunction(valueToCall)
        THEN Throw(args.st, TypeError("valueToCall.exceute is not a function"))
        ELSE IF HasError(returned) THEN returned
        ELSE IF IsHostValue(returned.value) THEN Throw(returned.st, NullTypeError)
        ELSE Ok(returned.st,
                setContext(setPosWithNode(copy(returned.value), node), context))

\* the while (true) loop of visitWhileNode (2274-2281)
whileLoop(node, context, st, elements) ==
    LET condition == visit(node.conditionNode, context, st)
        body == visit(node.bodyNode, context, condition.st)
    IN  IF HasError(condition) THEN condition
        ELSE IF IsHostValue(condition.value) THEN Throw(condition.st, NullTypeError)
        ELSE IF ~isTrue(condition.value)
        THEN LET st1 == NewArray(condition.st, elements)
             IN  Ok(st1, setPosWithNode(setContext(ListValue(Len(st1.arrays)), context),
                                        node))
        ELSE IF HasError(body) THEN body
        ELSE whileLoop(node, context, body.st, Append(elements, body.value))

visitWhileNode(node, context, st) == whileLoop(node, context, st, <<>>)

\* the loop test with <= and >= for < and >
forConditionInclusive(i, endValue, stepValue) ==
    IF NumLte(Whole(0), stepValue) THEN NumLte(i, endValue) ELSE NumLte(endValue, i)

\* condition() of visitForNode (2306-2312): stepValue.value >= 0 picks
\* i < endValue.value, a negative step i > endValue.value
forCondition(i, endValue, stepValue) ==
    IF NumLte(Whole(0), stepValue) THEN NumLt(i, endValue) ELSE NumLt(endValue, i)

\* the while (condition()) loop of visitForNode (2314-2323): i is the
\* counter, a number of the host
forLoop(node, context, st, i, endValue, stepValue, isInt, elements) ==
    LET condition == forCondition(i, endValue, stepValue)
        held == Hold(st, NumberValue(i, isInt))
        st1 == SymbolTableSet(held.st, st.contexts[context].symbolTable,
                              Str(node.varNameToken.value), held.value)
        body == visit(node.bodyNode, context, st1)
    IN  IF NumLtModelled(i, endValue) /\ ~condition
        THEN LET st2 == NewArray(st, elements)
             IN  Ok(st2, setPosWithNode(setContext(ListValue(Len(st2.arrays)), context),
                                        node))
        ELSE IF \/ ~NumLtModelled(i, endValue)
                \/ ~SymbolsSetModelled(Str(node.varNameToken.value))
                \/ ~NumAddModelled(i, stepValue)
        THEN Throw(st, NotModelled("a comparison or += on a rounded fraction, or a binding named __proto__"))
        ELSE IF HasError(body) THEN body
        ELSE forLoop(node, context, body.st, NumAdd(i, stepValue), endValue,
                     stepValue, isInt, Append(elements, body.value))

visitForNode(node, context, st) ==
    LET startValue == visit(node.startNode, context, st)
        endValue == visit(node.endNode, context, startValue.st)
        hasStep == node.stepNode.kind # NoNode.kind
        stepValue == IF hasStep THEN visit(node.stepNode, context, endValue.st)
                     ELSE Ok(endValue.st, NumberValue(Whole(1), TRUE))
        bounds == {startValue.value, endValue.value, stepValue.value}
    IN  IF HasError(startValue) THEN startValue
        ELSE IF HasError(endValue) THEN endValue
        ELSE IF HasError(stepValue) THEN stepValue
        ELSE IF \E v \in bounds : IsHostValue(v) THEN Throw(stepValue.st, NullTypeError)
        ELSE IF \E v \in bounds : ~IsNumberValue(v)
        THEN Throw(stepValue.st, NotModelled("a for loop over values that are no numbers"))
        ELSE forLoop(node, context, stepValue.st, startValue.value.value,
                     endValue.value.value, stepValue.value.value,
                     startValue.value.isInt /\ stepValue.value.isInt, <<>>)

\* the loop over the cases without its return: the branch of a truthy
\* condition is evaluated and the loop goes on
ifCasesNoReturn(node, i, context, st) ==
    IF i > Len(node.cases)
    THEN (IF node.elseCase.kind # NoNode.kind THEN visit(node.elseCase, context, st)
          ELSE Ok(st, HostNull))
    ELSE LET conditionValue == visit(node.cases[i][1], context, st)
             exprValue == visit(node.cases[i][2], context, conditionValue.st)
         IN  IF HasError(conditionValue) THEN conditionValue
             ELSE IF IsHostValue(conditionValue.value)
             THEN Throw(conditionValue.st, NullTypeError)
             ELSE IF isTrue(conditionValue.value)
             THEN (IF HasError(exprValue) THEN exprValue
                   ELSE ifCases(node, i + 1, context, exprValue.st))
             ELSE ifCases(node, i + 1, context, conditionValue.st)

\* the for loop over node.cases of visitIfNode (2333-2342) and what follows
\* it (2344-2350), from case i on
ifCases(node, i, context, st) ==
    IF i > Len(node.cases)
    THEN (IF node.elseCase.kind # NoNode.kind THEN visit(node.elseCase, context, st)
          ELSE Ok(st, HostNull))
    ELSE LET conditionValue == visit(node.cases[i][1], context, st)
         IN  IF HasError(conditionValue) THEN conditionValue
             ELSE IF IsHostValue(conditionValue.value)
             THEN Throw(conditionValue.st, NullTypeError)
             ELSE IF isTrue(conditionValue.value)
             THEN visit(node.cases[i][2], context, conditionValue.st)
             ELSE ifCases(node, i + 1, context, conditionValue.st)

visitIfNode(node, context, st) == ifCases(node, 1, context, st)

visitVarAccessNode(node, context, st) ==
    LET varName == Str(node.varNameToken.value)
        value == SymbolTableGet(st.tables, st.contexts[context].symbolTable, varName)
    IN  IF value.type = NULL
        THEN Throw(st, RTError(node.posStart, node.posEnd,
                               "\"" \o varName \o "\" is not defined", context))
        ELSE IF IsHostValue(value)
        THEN Throw(st, TypeError("value.copy is not a function"))
        ELSE Ok(st, setContext(setPosWithNode(copy(value), node), context))

visitVarAssignNode(node, context, st) ==
    LET varName == Str(node.varNameToken.value)
        value == visit(node.valueNode, context, st)
        held == Hold(value.st, value.value)
    IN  IF HasError(value) THEN value
        ELSE IF ~SymbolsSetModelled(varName)
        THEN Throw(value.st, NotModelled("a binding named __proto__"))
        ELSE Ok(SymbolTableSet(held.st, value.st.contexts[context].symbolTable,
                               varName, held.value),
                held.value)

visitNumberNode(node, context, st) ==
    LET isInt == node.token.type = TT_INT
    IN  IF ~isInt /\ ~parseFloatModelled(node.token.value)
        THEN Throw(st, NotModelled("a literal with a long fraction"))
        ELSE
        Ok(st, setPosWithNode(
                   setContext(NumberValue(IF isInt THEN parseInt(node.token.value)
                                          ELSE parseFloat(node.token.value),
                                          isInt),
                              context),
                   node))

\* the method the switch of visitBinOpNode picks (2407-2453)
OperatorOf(token) ==
    IF token.type = TT_KEYWORD THEN Str(token.value) ELSE token.type

\* a visitBinOpNode that leaves the right operand of && and || alone
\* when the left one decides
visitBinOpNodeShortCircuit(node, context, st) ==
    LET left == visit(node.leftNode, context, st)
        right == visit(node.rightNode, context, left.st)
        result == BinaryOp(OperatorOf(node.token), Refresh(right.st, left.value),
                           right.value, right.st)
        written == setPosWithNode(result.value, node)
    IN  IF HasError(left) THEN left
        ELSE IF OperatorOf(node.token) = "&&" /\ ~isTrue(left.value) THEN left
        ELSE IF OperatorOf(node.token) = "||" /\ isTrue(left.value) THEN left
        ELSE IF HasError(right) THEN right
        ELSE IF HasError(result) THEN result
        ELSE Ok(Written(result.st, written), written)

\* result.setPosWithNode(node) (2454) writes into the object the operator
\* handed back, which may be an operand or an element of a list
visitBinOpNode(node, context, st) ==
    LET left == visit(node.leftNode, context, st)
        right == visit(node.rightNode, context, left.st)
        result == BinaryOp(OperatorOf(node.token), Refresh(right.st, left.value),
                           right.value, right.st)
        written == setPosWithNode(result.value, node)
    IN  IF HasError(left) THEN left
        ELSE IF HasError(right) THEN right
        ELSE IF HasError(result) THEN result
        ELSE IF IsHostValue(result.value) THEN Throw(result.st, NullTypeError)
        ELSE Ok(Written(result.st, written), written)

visitUnaryOpNode(node, context, st) ==
    LET numberValue == visit(node.node, context, st)
        negated == BinaryOp(TT_MUL, numberValue.value, NumberValue(Whole(-1), TRUE),
                            numberValue.st)
    IN  IF HasError(numberValue) THEN numberValue
        ELSE IF IsHostValue(numberValue.value) THEN Throw(numberValue.st, NullTypeError)
        ELSE IF node.token.type = TT_MINUS
        THEN (IF HasError(negated) THEN negated
              ELSE Ok(negated.st, setPosWithNode(negated.value, node)))
        ELSE IF Matches(node.token, TT_KEYWORD, "!")
        THEN Ok(numberValue.st, setPosWithNode(not(numberValue.value), node))
        ELSE Ok(Written(numberValue.st, setPosWithNode(numberValue.value, node)),
                setPosWithNode(numberValue.value, node))

\* Interpreter.visit (2178-2206); each node visited uses up one unit of fuel
visit(node, context, st0) ==
    LET st == [st0 EXCEPT !.fuel = @ - 1]
    IN  IF st0.fuel = 0 THEN Throw(st0, Diverges)
        ELSE CASE node.kind = "NumberNode" -> visitNumberNode(node, context, st)
               [] node.kind = "StringNode" -> visitStringNode(node, context, st)
               [] node.kind = "BinOpNode" -> visitBinOpNode(node, context, st)
               [] node.kind = "UnaryOpNode" -> visitUnaryOpNode(node, context, st)
               [] node.kind = "VarAccessNode" -> visitVarAccessNode(node, context, st)
               [] node.kind = "VarAssignNode" -> visitVarAssignNode(node, context, st)
               [] node.kind = "IfNode" -> visitIfNode(node, context, st)
               [] node.kind = "ForNode" -> visitForNode(node, context, st)
               [] node.kind = "WhileNode" -> visitWhileNode(node, context, st)
               [] node.kind = "FuncDefNode" -> visitFuncDefNode(node, context, st)
               [] node.kind = "CallNode" -> visitCallNode(node, context, st)
               [] node.kind = "ListNode" -> visitListNode(node, context, st)

(***************************************************************************)
(* globalSymbolTable and run: src/basic.ts 2472-2504                       *)
(***************************************************************************)
\* the symbols of globalSymbolTable as the module sets them (2475-2484)
InitialGlobalSymbols ==
    [n \in {"null", "true", "false", "isList", "isString", "isNumber", "isInt",
            "isFloat", "isFunction", "append"} |->
        CASE n = "null" -> NullValue
          [] n = "true" -> BoolValue(TRUE)
          [] n = "false" -> BoolValue(FALSE)
          [] n = "append" -> BuiltInFunction("append", <<"list", "value">>)
          [] OTHER -> BuiltInFunction(n, <<"value">>)]

MaxFuel == 60

\* The objects there are when the module has been loaded.
InitialState ==
    [tables |-> <<[parent |-> 0, symbols |-> InitialGlobalSymbols]>>,
     contexts |-> <<>>,
     arrays |-> <<>>,
     objects |-> <<>>,
     fuel |-> MaxFuel]

\* run(fileName, text) with the objects of st0 there: what it returns (value)
\* or throws (error), and the objects there are afterwards (st).
\* `if (rtRes.hasError()) throw rtRes.error; return rtRes.value` (2502-2503)
runResult(rtRes) ==
    IF HasError(rtRes) THEN [rtRes EXCEPT !.value = HostUndefined] ELSE rtRes

\* a run that evaluates what the parser had built when it failed, and then
\* throws the parser's error
runInterpreterAnyway(ast, st0) ==
    LET st1 == [st0 EXCEPT !.contexts = Append(@, BasicContext("<program>", 0, NoPosition, 1)),
                           !.fuel = MaxFuel]
    IN  IF HasError(ast) /\ ast.node.kind = NoNode.kind
        THEN [Throw(st0, ast.error) EXCEPT !.value = HostUndefined]
        ELSE IF HasError(ast)
        THEN [Throw(visit(ast.node, Len(st1.contexts), st1).st, ast.error)
                 EXCEPT !.value = HostUndefined]
        ELSE runResult(visit(ast.node, Len(st1.contexts), st1))

\* run from `if (res.hasError())` on (2495-2503), ast being what parse()
\* returned
runInterpreter(ast, st0) ==
    LET st1 == [st0 EXCEPT !.contexts = Append(@, BasicContext("<program>", 0, NoPosition, 1)),
                           !.fuel = MaxFuel]
    IN  IF HasError(ast)
        THEN [Throw(st0, ast.error) EXCEPT !.value = HostUndefined]
        ELSE runResult(visit(ast.node, Len(st1.contexts), st1))

\* run from `new Parser(tokens)` on (2493-2503), lexed being what
\* makeTokens() returned or threw
runParser(lexed, st0) ==
    IF HasError(lexed)
    THEN [Throw(st0, lexed.error) EXCEPT !.value = HostUndefined]
    ELSE runInterpreter(parse(lexed.tokens), st0)

run(text, st0) == runParser(makeTokens(text), st0)

(***************************************************************************)
(* The lexer specification: a text from a bounded set, scanned one pass of *)
(* makeTokens' loop at a time.                                             *)
(***************************************************************************)
MaxTextLen == 4
LexAlphabet == {"1", "a", " ", "+", "\"", "\\", "n"}

RECURSIVE TextsUpTo(_)
TextsUpTo(n) ==
    IF n = 0 THEN {<<>>}
    ELSE LET shorter == TextsUpTo(n - 1)
         IN  shorter \cup {Append(t, c) : t \in {s \in shorter : Len(s) = n - 1},
                                          c \in LexAlphabet}

\* run has not been called
ReplInit ==
    /\ symbolTables = InitialState.tables
    /\ basicContexts = InitialState.contexts
    /\ elementArrays = InitialState.arrays
    /\ valueObjects = InitialState.objects
    /\ session = <<>>
    /\ outcome = [error |-> NoError, value |-> HostUndefined, fuel |-> MaxFuel]

LexInit ==
    /\ lexText \in TextsUpTo(MaxTextLen)
    /\ lexer = LexerStart(lexText)
    /\ ReplInit

LexStep ==
    /\ ~lexer.done
    /\ lexer' = makeTokensStep(lexText, lexer)
    /\ UNCHANGED <<lexText, replVars>>

LexNext == LexStep

LexSpec == LexInit /\ [][LexNext]_vars

(***************************************************************************)
(* The read-eval-print loop: run is called with one text after another;    *)
(* the objects one call leaves are there for the next.                     *)
(***************************************************************************)
MaxRuns == 3

Init ==
    /\ lexText = <<>>
    /\ lexer = LexerStart(lexText)
    /\ ReplInit

\* the objects of the current state
State ==
    [tables |-> symbolTables, contexts |-> basicContexts, arrays |-> elementArrays,
     objects |-> valueObjects, fuel |-> MaxFuel]

\* One call run(fileName, text) that returns or throws.
Run(text) ==
    \E r \in {run(text, State)} :
        /\ Len(session) < MaxRuns
        /\ r.error.name \notin {Diverges.name, NotModelled("").name}
        /\ symbolTables' = r.st.tables
        /\ basicContexts' = r.st.contexts
        /\ elementArrays' = r.st.arrays
        /\ valueObjects' = r.st.objects
        /\ session' = Append(session, text)
        /\ outcome' = [error |-> r.error, value |-> r.value, fuel |-> r.st.fuel]
        /\ UNCHANGED lexVars

\* Function definitions and calls.
ScopeLines ==
    {Chars("fun mk(a) -> fun () -> a"), Chars("var g = mk(5)"), Chars("g()"),
     Chars("fun f() -> y"), Chars("fun h(y) -> f()"), Chars("h(7)"),
     Chars("var y = 1")}

ScopeNext == \E text \in ScopeLines : Run(text)

ScopeSpec == Init /\ [][ScopeNext]_vars

(***************************************************************************)
(* What a session shows of the program.                                    *)
(***************************************************************************)
\* the symbols of globalSymbolTable
Globals == symbolTables[1].symbols

\* The last call of run was on this text.
Ran(string) == session # <<>> /\ session[Len(session)] = Chars(string)

\* v and w are the same value of the language, whatever span and context
\* they carry
SameValue(v, w) ==
    [v EXCEPT !.posStart = NoPosition, !.posEnd = NoPosition, !.context = 0, !.id = 0]
        = [w EXCEPT !.posStart = NoPosition, !.posEnd = NoPosition, !.context = 0,
                    !.id = 0]

\* The last call of run returned a value like v / threw this Runtime Error.
Returned(v) == outcome.error = NoError /\ SameValue(outcome.value, v)
ThrewRuntimeError(message) ==
    outcome.error.name = "Runtime Error" /\ outcome.error.message = message

\* the number n of the language, a literal or computed from whole numbers
Num(n) == NumberValue(Whole(n), TRUE)

(***************************************************************************)
(* C1  Function calls are lexically scoped: the body of a function runs in *)
(* a new environment whose parent is the environment the function was      *)
(* defined in.  With f defined at top level as `fun f() -> y` and called   *)
(* from inside h(7), whose parameter is y, y in f's body is the top-level  *)
(* y (its value, or "y" is not defined), never the caller's 7; and the     *)
(* function mk(5) returned sees mk's parameter a, so g() returns 5.        *)
(***************************************************************************)
C1_LexicalScope ==
    /\ (Ran("h(7)") /\ {"f", "h"} \subseteq DOMAIN Globals) =>
           IF "y" \in DOMAIN Globals THEN Returned(Globals["y"])
           ELSE ThrewRuntimeError("\"y\" is not defined")
    /\ (Ran("g()") /\ "g" \in DOMAIN Globals) => Returned(Num(5))

(***************************************************************************)
(* Calls with as many, fewer and more arguments than parameters.           *)
(***************************************************************************)
\* A call line: the name called, the numbers passed, what the claim expects
\* back (value when the counts match, message when they do not).
ArityCall(string, name, args, value, message) ==
    [text |-> Chars(string), name |-> name, args |-> args, value |-> value,
     message |-> message]

ArityCalls ==
    {ArityCall("add(2, 3)", "add", <<2, 3>>, Num(5), ""),
     ArityCall("add(1)", "add", <<1>>, Num(0),
               "1 - 2 too few args passed into 'add'"),
     ArityCall("add(1, 2, 3)", "add", <<1, 2, 3>>, Num(0),
               "3 - 2 too many args passed into 'add'"),
     ArityCall("set(4)", "set", <<4>>, Num(4), ""),
     ArityCall("set()", "set", <<>>, Num(0),
               "0 - 1 too few args passed into 'set'"),
     ArityCall("isInt(1)", "isInt", <<1>>, BoolValue(TRUE), ""),
     ArityCall("isInt()", "isInt", <<>>, Num(0),
               "0 - 1 too few args passed into 'isInt'"),
     ArityCall("isInt(1, 2)", "isInt", <<1, 2>>, Num(0),
               "2 - 1 too many args passed into 'isInt'")}

ArityLines ==
    {Chars("fun add(a, b) -> a + b"), Chars("fun set(a) -> var hit = a")}
        \cup {c.text : c \in ArityCalls}

ArityNext == \E text \in ArityLines : Run(text)

AritySpec == Init /\ [][ArityNext]_vars

(***************************************************************************)
(* C2  A call of a function (user-defined or builtin) whose number of      *)
(* arguments differs from its number of parameters fails with a Runtime    *)
(* Error naming the function and the two counts; nothing but the call, the *)
(* callee and the arguments is evaluated, and the environment made for the *)
(* call holds no binding.  With matching counts that environment binds     *)
(* each parameter to the argument at its position and the call returns the *)
(* body's value (add(2, 3) returns 5).  No earlier environment changes.    *)
(***************************************************************************)
C2_Arity ==
    [][\A c \in ArityCalls :
         (/\ session' = Append(session, c.text)
          /\ c.name \in DOMAIN Globals
          /\ IsBaseFunction(Globals[c.name])) =>
             LET f == Globals[c.name]
                 created == symbolTables'[Len(symbolTables')]
             IN  /\ Len(symbolTables') = Len(symbolTables) + 1
                 /\ SubSeq(symbolTables', 1, Len(symbolTables)) = symbolTables
                 /\ IF Len(c.args) # Len(f.argNames)
                    THEN /\ outcome'.error.name = "Runtime Error"
                         /\ outcome'.error.message = c.message
                         /\ outcome'.value = HostUndefined
                         /\ outcome'.fuel = MaxFuel - (2 + Len(c.args))
                         /\ DOMAIN created.symbols = {}
                    ELSE /\ outcome'.error = NoError
                         /\ SameValue(outcome'.value, c.value)
                         /\ \A i \in 1..Len(c.args) :
                              /\ f.argNames[i] \in DOMAIN created.symbols
                              /\ SameValue(created.symbols[f.argNames[i]],
                                           Num(c.args[i]))]_vars

\* add was called with one argument for its two parameters and the call
\* failed with the arity error
C2_Witness ==
    /\ Ran("add(1)")
    /\ ThrewRuntimeError("1 - 2 too few args passed into 'add'")
    /\ DOMAIN symbolTables[Len(symbolTables)].symbols = {}

(***************************************************************************)
(* For loops over whole numbers: one loop at top level, then reads of its  *)
(* induction variable.                                                     *)
(***************************************************************************)
MaxCount == 3
MaxStep == 2

\* the text of a whole number
IntChars(n) == NumToString(Whole(n))

\* `for i = <start> to <end> then i`, with ` step <step>` before then
ForText(start, end, step, hasStep) ==
    Chars("for i = ") \o IntChars(start) \o Chars(" to ") \o IntChars(end)
        \o (IF hasStep THEN Chars(" step ") \o IntChars(step) ELSE <<>>)
        \o Chars(" then i")

\* a loop without a step counts by 1 (2300-2302)
ForCases ==
    {[text |-> ForText(start, end, step, hasStep), start |-> start, end |-> end,
      step |-> step] :
        start \in 0..MaxCount, end \in 0..MaxCount,
        hasStep \in BOOLEAN, step \in {1}} \cup
    {[text |-> ForText(start, end, step, TRUE), start |-> start, end |-> end,
      step |-> step] :
        start \in 0..MaxCount, end \in 0..MaxCount, step \in -MaxStep..MaxStep}

ForNext ==
    \/ session = <<>> /\ \E c \in ForCases : Run(c.text)
    \/ session # <<>> /\ Run(Chars("i"))

ForSpec == Init /\ [][ForNext]_vars

\* The counter values the claim lists: from c on by step while the test
\* holds, which is c < end for a step of 0 or more and c > end below 0.
RECURSIVE CounterValues(_, _, _)
CounterValues(c, end, step) ==
    IF (step >= 0 /\ c < end) \/ (step < 0 /\ c > end)
    THEN <<c>> \o CounterValues(c + step, end, step)
    ELSE <<>>

(***************************************************************************)
(* C3  A for loop over whole numbers evaluates its body once per counter   *)
(* value, in order: start, start+step, ... while the counter is below end  *)
(* (step 0 or more) or above end (step below 0), with the induction        *)
(* variable bound to that value while the body is evaluated.  The body `i` *)
(* reads the variable, so the list the loop returns holds exactly these    *)
(* counter values in order (0 to 3: 0,1,2; 3 to 0 step -1: 3,2,1).         *)
(***************************************************************************)
C3_ForLoop ==
    \A c \in ForCases :
        session = <<c.text>> =>
            /\ outcome.error = NoError
            /\ outcome.value.type = "List"
            /\ LET elements == elementArrays[outcome.value.elements]
                   expected == CounterValues(c.start, c.end, c.step)
               IN  /\ Len(elements) = Len(expected)
                   /\ \A k \in 1..Len(expected) :
                        SameValue(elements[k], Num(expected[k]))

\* the loop from 3 down to 0 has run and returned the list 3, 2, 1
C3_Witness ==
    /\ session = <<Chars("for i = 3 to 0 step -1 then i")>>
    /\ outcome.value.type = "List"
    /\ LET elements == elementArrays[outcome.value.elements]
       IN  /\ Len(elements) = 3
           /\ SameValue(elements[1], Num(3))
           /\ SameValue(elements[2], Num(2))
           /\ SameValue(elements[3], Num(1))

\* the first counter value that fails the loop test
RECURSIVE FirstFailing(_, _, _)
FirstFailing(c, end, step) ==
    IF (step >= 0 /\ c < end) \/ (step < 0 /\ c > end)
    THEN FirstFailing(c + step, end, step)
    ELSE c

(***************************************************************************)
(* C4  After a for loop has finished, its induction variable is bound, in  *)
(* the environment the loop ran in, to the first counter value that failed *)
(* the loop test, and reading it returns that value (after                 *)
(* `for i = 0 to 3 then i`, i is 3).                                       *)
(***************************************************************************)
C4_AfterLoop ==
    \A c \in ForCases :
        (session # <<>> /\ session[1] = c.text) =>
            LET after == Num(FirstFailing(c.start, c.end, c.step))
            IN  /\ "i" \in DOMAIN Globals
                /\ SameValue(Globals["i"], after)
                /\ Ran("i") => Returned(after)

(***************************************************************************)
(* Top-level assignments and reads, one call of run each.                  *)
(***************************************************************************)
\* the lines that assign, with the name they assign to
VarAssigns ==
    {[text |-> Chars("var x = 5"), name |-> "x"],
     [text |-> Chars("var x = x + 1"), name |-> "x"],
     [text |-> Chars("var x = [1, 2]"), name |-> "x"],
     [text |-> Chars("var x = if 0 then 1"), name |-> "x"],
     [text |-> Chars("var y = x"), name |-> "y"]}

\* the lines that read, with the name they read
VarReads ==
    {[text |-> Chars("x"), name |-> "x"], [text |-> Chars("y"), name |-> "y"]}

VarLines == {a.text : a \in VarAssigns} \cup {r.text : r \in VarReads}

VarNext == \E text \in VarLines : Run(text)

VarSpec == Init /\ [][VarNext]_vars

(***************************************************************************)
(* C5  The global environment persists from one call of run to the next.   *)
(* A run of `var <name> = e` that returns a value v leaves <name> bound to *)
(* v in the global environment, in place of any earlier binding of that    *)
(* name and with every other binding as it was; a later run of `<name>`    *)
(* returns the value bound and changes nothing.  `var x = 5` binds 5, and  *)
(* `var x = x + 1` on a number n binds n + 1.  (A value is a value of the  *)
(* language; an e that yields none is the subject of C8.)                  *)
(***************************************************************************)
C5_GlobalsPersist ==
    [][LET before == Globals
           after == symbolTables'[1].symbols
       IN  /\ \A a \in VarAssigns :
                (/\ session' = Append(session, a.text)
                 /\ outcome'.error = NoError
                 /\ ~IsHostValue(outcome'.value)) =>
                    /\ DOMAIN after = DOMAIN before \cup {a.name}
                    /\ after[a.name] = outcome'.value
                    /\ \A n \in DOMAIN before \ {a.name} : after[n] = before[n]
                    /\ Len(symbolTables') = Len(symbolTables)
           /\ \A r \in VarReads :
                (/\ session' = Append(session, r.text)
                 /\ r.name \in DOMAIN before
                 /\ ~IsHostValue(before[r.name])) =>
                    /\ outcome'.error = NoError
                    /\ SameValue(outcome'.value, before[r.name])
                    /\ symbolTables' = symbolTables
           /\ session' = Append(session, Chars("var x = 5")) =>
                SameValue(after["x"], Num(5))
           /\ (/\ session' = Append(session, Chars("var x = x + 1"))
               /\ "x" \in DOMAIN before
               /\ before["x"].type = "Number") =>
                SameValue(after["x"],
                          NumberValue(NumAdd(before["x"].value, Whole(1)), TRUE))]_vars

\* x was set to 5, then to x + 1, and a third run read 6
C5_Witness ==
    /\ session = <<Chars("var x = 5"), Chars("var x = x + 1"), Chars("x")>>
    /\ Returned(Num(6))

(***************************************************************************)
(* Divisions by a literal, a computed and a stored zero.                   *)
(***************************************************************************)
\* A division whose right operand is zero: the spans (index of the first
\* character, index after the last) its right operand has in the text, and
\* the variable the operand reads, if it reads one.  A parenthesised
\* operand may be taken with or without its parentheses.
DivCases ==
    {[text |-> Chars("1/0"), spans |-> {<<2, 3>>}, reads |-> ""],
     [text |-> Chars("1/0 + 5"), spans |-> {<<2, 3>>}, reads |-> ""],
     [text |-> Chars("1/(2-2)"), spans |-> {<<3, 6>>, <<2, 7>>}, reads |-> ""],
     [text |-> Chars("1/z"), spans |-> {<<2, 3>>}, reads |-> "z"],
     [text |-> Chars("1/z + 1"), spans |-> {<<2, 3>>}, reads |-> "z"]}

DivLines == {c.text : c \in DivCases} \cup {Chars("var z = 0"), Chars("4/2")}

DivNext == \E text \in DivLines : Run(text)

DivSpec == Init /\ [][DivNext]_vars

(***************************************************************************)
(* C6  `l / r` with a Number on the left and a right operand that          *)
(* evaluates to zero (a literal 0, a computed zero such as 2-2, a variable *)
(* holding 0) fails with the Runtime Error 'Division by zero', whose span  *)
(* is the span of the right operand expression, and returns no value.      *)
(***************************************************************************)
C6_DivisionByZero ==
    \A c \in DivCases :
        (/\ session # <<>>
         /\ session[Len(session)] = c.text
         /\ c.reads # "" => (/\ c.reads \in DOMAIN Globals
                             /\ SameValue(Globals[c.reads], Num(0)))) =>
            /\ ThrewRuntimeError("Division by zero")
            /\ outcome.value = HostUndefined
            /\ <<outcome.error.posStart.index, outcome.error.posEnd.index>>
                   \in c.spans

(***************************************************************************)
(* If-expressions whose conditions and branches are assignments.           *)
(***************************************************************************)
\* if var a = <c1> then var r1 = 1 elif var b = <c2> then var r2 = 2, with
\* else var r3 = 3 or without an else
IfText(c1, c2, hasElse) ==
    Chars("if var a = ") \o IntChars(c1) \o Chars(" then var r1 = 1 elif var b = ")
        \o IntChars(c2) \o Chars(" then var r2 = 2")
        \o (IF hasElse THEN Chars(" else var r3 = 3") ELSE <<>>)

IfCases ==
    {[text |-> IfText(c1, c2, hasElse), c1 |-> c1, c2 |-> c2, hasElse |-> hasElse] :
        c1 \in {0, 1}, c2 \in {0, 1}, hasElse \in BOOLEAN}

IfNext == \E c \in IfCases : Run(c.text)

IfSpec == Init /\ [][IfNext]_vars

\* the branch the claim has evaluated: the first whose condition is truthy,
\* 3 for the else branch, 0 for none
IfTaken(c) ==
    IF c.c1 # 0 THEN 1 ELSE IF c.c2 # 0 THEN 2 ELSE IF c.hasElse THEN 3 ELSE 0

IfBranchVar(k) == CASE k = 1 -> "r1" [] k = 2 -> "r2" [] k = 3 -> "r3"

\* the names the claim has assigned: a, b when the first condition was
\* falsy, and the variable of the branch taken
IfAssigned(c) ==
    {"a"} \cup (IF c.c1 = 0 THEN {"b"} ELSE {})
          \cup (IF IfTaken(c) # 0 THEN {IfBranchVar(IfTaken(c))} ELSE {})

(***************************************************************************)
(* C7  An if-expression evaluates its conditions in order and stops at the *)
(* first truthy one; only that case's branch is evaluated and its value    *)
(* returned; the else branch is evaluated only when every condition was    *)
(* falsy.  With an assignment in every condition and branch: the run       *)
(* assigns a, assigns b only when the first condition was falsy, assigns   *)
(* the variable of the one branch taken (each by a value made in this      *)
(* run), leaves every other binding as it was, and visits no node besides  *)
(* the if, the conditions evaluated and the branch taken.                  *)
(***************************************************************************)
C7_IfOrder ==
    [][\A c \in IfCases :
         session' = Append(session, c.text) =>
            LET before == Globals
                after == symbolTables'[1].symbols
                taken == IfTaken(c)
                assigned == IfAssigned(c)
            IN  /\ outcome'.error = NoError
                /\ taken # 0 => SameValue(outcome'.value, Num(taken))
                /\ DOMAIN after = DOMAIN before \cup assigned
                /\ \A n \in DOMAIN before \ assigned : after[n] = before[n]
                /\ \A n \in assigned : after[n].context = Len(basicContexts')
                /\ SameValue(after["a"], Num(c.c1))
                /\ c.c1 = 0 => SameValue(after["b"], Num(c.c2))
                /\ taken # 0 => SameValue(after[IfBranchVar(taken)], Num(taken))
                /\ outcome'.fuel = MaxFuel - (1 + 2 * Cardinality(assigned))]_vars

\* the first condition was falsy and the second truthy: the run returned 2
\* and assigned r2, and neither r1 nor r3
C7_Witness ==
    /\ session = <<IfText(0, 1, TRUE)>>
    /\ Returned(Num(2))
    /\ {"a", "b", "r2"} \subseteq DOMAIN Globals
    /\ {"r1", "r3"} \cap DOMAIN Globals = {}

(***************************************************************************)
(* If-expressions without an else whose condition is falsy, alone, stored, *)
(* read back, as an operand and as a condition.                            *)
(***************************************************************************)
NullLines ==
    {Chars("if 0 then 1"), Chars("var y = if 0 then 1"), Chars("y"),
     Chars("(if 0 then 1) + 1"), Chars("if (if 0 then 1) then 2 else 3"),
     Chars("null"), Chars("null + 1")}

NullNext == \E text \in NullLines : Run(text)

NullSpec == Init /\ [][NullNext]_vars

\* A run of `var y = if 0 then 1` came before the last run.
StoredIf ==
    \E k \in 1..(Len(session) - 1) : session[k] = Chars("var y = if 0 then 1")

(***************************************************************************)
(* C8  An if-expression without an else in which no condition is truthy    *)
(* evaluates to the Null value of the language, the value the name `null`  *)
(* denotes: a run of it returns that value; `var` stores it and a later    *)
(* read returns it; as an operand it counts as null does (null + 1 is 1);  *)
(* as a condition it is falsy, so the else branch is taken.                *)
(***************************************************************************)
C8_IfWithoutElse ==
    /\ Ran("if 0 then 1") => Returned(Globals["null"])
    /\ Ran("var y = if 0 then 1") =>
           /\ Returned(Globals["null"])
           /\ "y" \in DOMAIN Globals
           /\ SameValue(Globals["y"], Globals["null"])
    /\ (Ran("y") /\ StoredIf) => Returned(Globals["null"])
    /\ Ran("(if 0 then 1) + 1") => Returned(Num(1))
    /\ Ran("if (if 0 then 1) then 2 else 3") => Returned(Num(3))

(***************************************************************************)
(* What the claims about the lexer read off a text.  Indices count from 0, *)
(* as Position.index does.                                                 *)
(***************************************************************************)
\* The index of the first double quote at or after index i that no
\* backslash escapes, a backslash escaping the one character after it;
\* -1 when there is none.
RECURSIVE ClosingQuote(_, _)
ClosingQuote(text, i) ==
    IF i >= Len(text) THEN -1
    ELSE IF text[i + 1] = "\\" THEN ClosingQuote(text, i + 2)
    ELSE IF text[i + 1] = "\"" THEN i
    ELSE ClosingQuote(text, i + 1)

\* what an escaped character stands for
Escaped(c) == CASE c = "n" -> "\n" [] c = "t" -> "\t" [] OTHER -> c

\* The characters the literal text between index i and the closing quote
\* at index close denotes.
RECURSIVE LiteralChars(_, _, _)
LiteralChars(text, i, close) ==
    IF i >= close THEN <<>>
    ELSE IF text[i + 1] = "\\"
    THEN <<Escaped(text[i + 2])>> \o LiteralChars(text, i + 2, close)
    ELSE <<text[i + 1]>> \o LiteralChars(text, i + 1, close)

(***************************************************************************)
(* C9  A string literal ends at the first double quote no backslash        *)
(* escapes, and a backslash escapes exactly the one character after it.    *)
(* For a text that begins with a literal that has such a closing quote:    *)
(* the first token is the STRING of the characters between the quotes      *)
(* (escapes replaced), and lexing goes on right after the closing quote:   *)
(* until the next token is made the lexer has skipped only whitespace, and *)
(* the next token starts after the quote.                                  *)
(***************************************************************************)
C9_StringLiteral ==
    (/\ lexText # <<>>
     /\ lexText[1] = "\""
     /\ ClosingQuote(lexText, 1) # -1
     /\ Len(lexer.tokens) >= 1) =>
        LET close == ClosingQuote(lexText, 1)
            tokens == LexerTokens(lexer)
        IN  /\ tokens[1].type = TT_STRING
            /\ tokens[1].value = LiteralChars(lexText, 1, close)
            /\ (Len(tokens) = 1 /\ ~lexer.done) =>
                   /\ lexer.pos.index >= close + 1
                   /\ \A j \in (close + 1)..(lexer.pos.index - 1) :
                        lexText[j + 1] \in Whitespace
            /\ Len(tokens) >= 2 => tokens[2].posStart.index >= close + 1

(***************************************************************************)
(* C10  In the tokens makeTokens has returned, read after it returned,     *)
(* every token but EOF spans its own characters: posStart is the index of  *)
(* its first character, posEnd the index after its last.  So a span is not *)
(* empty, the text of a number, identifier or keyword token over its span  *)
(* is the token's value, the spans are in order and do not overlap, every  *)
(* character that is no whitespace lies in a span, and only a string       *)
(* token's span holds whitespace.                                          *)
(***************************************************************************)
C10_TokenSpans ==
    (lexer.done /\ lexer.error = NoError) =>
        LET tokens == LexerTokens(lexer)
            n == Len(tokens) - 1
            first(k) == tokens[k].posStart.index
            after(k) == tokens[k].posEnd.index
            span(k) == first(k)..(after(k) - 1)
            blank == {i \in 0..(Len(lexText) - 1) : lexText[i + 1] \in Whitespace}
        IN  /\ tokens[n + 1].type = TT_EOF
            /\ \A k \in 1..n :
                 /\ 0 <= first(k) /\ first(k) < after(k) /\ after(k) <= Len(lexText)
                 /\ tokens[k].type \in {TT_INT, TT_FLOAT, TT_IDENTIFIER, TT_KEYWORD} =>
                        SubSeq(lexText, first(k) + 1, after(k)) = tokens[k].value
                 /\ tokens[k].type # TT_STRING => span(k) \cap blank = {}
            /\ \A k \in 1..(n - 1) : after(k) <= first(k + 1)
            /\ \A i \in 0..(Len(lexText) - 1) :
                 i \notin blank => \E k \in 1..n : i \in span(k)

(***************************************************************************)
(* The lexer on texts of & and |: the same scan as LexSpec, over another   *)
(* alphabet.                                                               *)
(***************************************************************************)
AndOrAlphabet == {"&", "|", "1", " "}

AndOrTexts == UNION {[1..n -> AndOrAlphabet] : n \in 0..MaxTextLen}

AndOrInit ==
    /\ lexText \in AndOrTexts
    /\ lexer = LexerStart(lexText)
    /\ ReplInit

AndOrSpec == AndOrInit /\ [][LexNext]_vars

\* the token types of src/basic.ts 6-29
TokenTypes ==
    {TT_INT, TT_FLOAT, TT_STRING, TT_IDENTIFIER, TT_KEYWORD, TT_PLUS, TT_MINUS,
     TT_MUL, TT_DIV, TT_POW, TT_EQ, TT_LPAREN, TT_RPAREN, TT_LSQUARE,
     TT_RSQUARE, TT_EE, TT_NE, TT_LT, TT_GT, TT_LTE, TT_GTE, TT_COMMA,
     TT_ARROW, TT_EOF}

\* From index i on, the text has a & that no & follows or a | that no |
\* follows, && and || being read as pairs from the left.
RECURSIVE LoneAndOr(_, _)
LoneAndOr(text, i) ==
    IF i >= Len(text) THEN FALSE
    ELSE IF text[i + 1] \in {"&", "|"}
    THEN IF i + 1 < Len(text) /\ text[i + 2] = text[i + 1]
         THEN LoneAndOr(text, i + 2)
         ELSE TRUE
    ELSE LoneAndOr(text, i + 1)

(***************************************************************************)
(* C11  makeTokens either throws or returns tokens whose types are all     *)
(* token types; a text with a & that no & follows, or a | that no |        *)
(* follows, is malformed: makeTokens does not return tokens for it.        *)
(***************************************************************************)
C11_LoneAndOr ==
    (lexer.done /\ lexer.error = NoError) =>
        /\ \A i \in 1..Len(lexer.tokens) : LexerTokens(lexer)[i].type \in TokenTypes
        /\ ~LoneAndOr(lexText, 0)

(***************************************************************************)
(* The parser on texts of a few words: one call of run on a text of up to  *)
(* MaxWords words with a blank between them.                               *)
(***************************************************************************)
MaxWords == 3

ParseWords == {"1", "x", "+", "*", "(", ")", "[", "]", ",", "var", "="}

RECURSIVE JoinWords(_)
JoinWords(words) ==
    IF Len(words) = 1 THEN Chars(words[1])
    ELSE Chars(words[1]) \o <<" ">> \o JoinWords(Tail(words))

ParseTexts ==
    {JoinWords(words) : words \in UNION {[1..n -> ParseWords] : n \in 1..MaxWords}}

ParseNext == \E text \in ParseTexts : session = <<>> /\ Run(text)

ParseSpec == Init /\ [][ParseNext]_vars

(***************************************************************************)
(* C12  parse succeeds only when every token up to EOF has been consumed.  *)
(* When expr has parsed an expression and the current token is not EOF,    *)
(* run throws the Invalid Syntax error of parse, whose positions are those *)
(* of that token, the first one not consumed; when parse succeeds, the     *)
(* current token is the EOF token, the last of the sequence.               *)
(***************************************************************************)
C12_ParseToEOF ==
    session # <<>> =>
        LET tokens == makeTokens(session[1]).tokens
            res == expr(tokens, 1)
            cur == CurToken(tokens, res.idx)
        IN  /\ (~HasError(res) /\ cur.type # TT_EOF) =>
                   /\ outcome.error
                          = InvalidSyntaxError(cur.posStart, cur.posEnd, ExpectedOperator)
                   /\ outcome.value = HostUndefined
                   /\ \A i \in 1..(res.idx - 1) : tokens[i].type # TT_EOF
            /\ outcome.error.name # "Invalid Syntax" =>
                   /\ ~HasError(res)
                   /\ cur.type = TT_EOF
                   /\ res.idx = Len(tokens)

C12_Witness ==
    /\ Ran("1 1")
    /\ outcome.error.name = "Invalid Syntax"
    /\ outcome.error.message = ExpectedOperator
    /\ outcome.error.posStart.index = 2

(***************************************************************************)
(* Lists: sessions that bind a list to a and apply + and - to it.          *)
(***************************************************************************)
ListOpTexts == {Chars("a + 3"), Chars("a - 0"), Chars("a - 1")}

ListOpLines == {Chars("var a = [1, 2]"), Chars("var a = []")} \cup ListOpTexts

ListOpNext == \E text \in ListOpLines : Run(text)

ListOpSpec == Init /\ [][ListOpNext]_vars

\* the elements of the list value v, in the arrays given
ElementsOf(v, arrays) == arrays[v.elements]

(***************************************************************************)
(* C13  The list operators + and - return a new list and leave their       *)
(* operand as it was: a run of `a + v` or `a - i`, with a bound to a list, *)
(* returns a list, and the list bound to a has afterwards the elements it  *)
(* had before, in the same order.                                          *)
(***************************************************************************)
C13_ListOperators ==
    [][\A text \in ListOpTexts :
         (/\ session' = Append(session, text)
          /\ "a" \in DOMAIN Globals
          /\ Globals["a"].type = "List") =>
             /\ outcome'.error = NoError
             /\ outcome'.value.type = "List"
             /\ symbolTables'[1].symbols["a"] = Globals["a"]
             /\ ElementsOf(Globals["a"], elementArrays')
                    = ElementsOf(Globals["a"], elementArrays)]_vars

(***************************************************************************)
(* The builtin append: sessions that bind a to a list or to a number and   *)
(* call append on it.                                                      *)
(***************************************************************************)
AppendCalls ==
    {[text |-> Chars("append(a, 7)"), list |-> "a", value |-> Num(7)],
     [text |-> Chars("append(a, 1)"), list |-> "a", value |-> Num(1)],
     [text |-> Chars("append(b, 7)"), list |-> "b", value |-> Num(7)]}

AppendLines ==
    {Chars("var a = [1]"), Chars("var a = 5"), Chars("var b = []"),
     Chars("append(5, 7)")}
        \cup {c.text : c \in AppendCalls}

AppendNext == \E text \in AppendLines : Run(text)

AppendSpec == Init /\ [][AppendNext]_vars

\* This step is a run of the call c with c.list bound to a value of this
\* kind: a List, or any other value.
AppendsTo(c, isList) ==
    /\ session' = Append(session, c.text)
    /\ c.list \in DOMAIN Globals
    /\ (Globals[c.list].type = "List") = isList

\* The step leaves the list at this address with one more element, the
\* value last, and every other list as it was.
Pushed(addr, value) ==
    LET before == elementArrays[addr]
        after == elementArrays'[addr]
    IN  /\ Len(elementArrays') = Len(elementArrays)
        /\ Len(after) = Len(before) + 1
        /\ SubSeq(after, 1, Len(before)) = before
        /\ SameValue(after[Len(after)], value)
        /\ \A k \in DOMAIN elementArrays \ {addr} : elementArrays'[k] = elementArrays[k]

\* The step fails with the Runtime Error of append and changes no list.
AppendRefused ==
    /\ outcome'.error.name = "Runtime Error"
    /\ outcome'.error.message = "First argument must be list"
    /\ outcome'.value = HostUndefined
    /\ elementArrays' = elementArrays
    /\ symbolTables'[1] = symbolTables[1]

(***************************************************************************)
(* C14 as stated: append(list, value) on a variable bound to a list of n   *)
(* elements leaves that list with n + 1 elements, value last and the       *)
(* earlier ones unchanged, and returns that list; with a first argument    *)
(* that is no List it fails with a Runtime Error and no list changes.      *)
(***************************************************************************)
C14_AppendReturnsList ==
    [][/\ \A c \in AppendCalls :
            /\ AppendsTo(c, TRUE) =>
                   /\ outcome'.error = NoError
                   /\ Pushed(Globals[c.list].elements, c.value)
                   /\ outcome'.value.type = "List"
                   /\ outcome'.value.elements = Globals[c.list].elements
            /\ AppendsTo(c, FALSE) => AppendRefused
       /\ session' = Append(session, Chars("append(5, 7)")) => AppendRefused]_vars

(***************************************************************************)
(* C14 amended: append(list, value) on a variable bound to a list of n     *)
(* elements leaves that list with n + 1 elements, value last and the       *)
(* earlier ones unchanged, and returns the Number n + 1, the list's new    *)
(* length, an integer; the global bindings stay as they were.  With a      *)
(* first argument that is no List it fails with the Runtime Error 'First   *)
(* argument must be list' and no list changes.                             *)
(***************************************************************************)
C14_AppendReturnsLength ==
    [][/\ \A c \in AppendCalls :
            /\ AppendsTo(c, TRUE) =>
                   /\ outcome'.error = NoError
                   /\ Pushed(Globals[c.list].elements, c.value)
                   /\ SameValue(outcome'.value,
                                Num(Len(elementArrays[Globals[c.list].elements]) + 1))
                   /\ symbolTables'[1] = symbolTables[1]
            /\ AppendsTo(c, FALSE) => AppendRefused
       /\ session' = Append(session, Chars("append(5, 7)")) => AppendRefused]_vars

\* a held [1]; append(a, 7) returned 2 and a holds [1, 7]
C14_Witness ==
    /\ session = <<Chars("var a = [1]"), Chars("append(a, 7)")>>
    /\ Returned(Num(2))
    /\ Len(elementArrays[Globals["a"].elements]) = 2
    /\ SameValue(elementArrays[Globals["a"].elements][2], Num(7))

(***************************************************************************)
(* The type predicates: sessions that bind v to a value of each variant    *)
(* and ask a predicate about it.                                           *)
(***************************************************************************)
\* one text per variant: Number, Boolean, Null, String, List, Function,
\* BuiltinFunction
VariantLines ==
    {Chars("var v = 1"), Chars("var v = true"), Chars("var v = null"),
     Chars("var v = \"s\""), Chars("var v = [1]"), Chars("var v = fun () -> 1"),
     Chars("var v = append")}

\* a predicate's call on v and the types of the values it is to accept
TypePredicates ==
    {[text |-> Chars("isNumber(v)"), types |-> {"Number"}],
     [text |-> Chars("isString(v)"), types |-> {"String"}],
     [text |-> Chars("isList(v)"), types |-> {"List"}],
     [text |-> Chars("isFunction(v)"), types |-> {"Function", "BuiltIn"}]}

TypeNext == \E text \in VariantLines \cup {p.text : p \in TypePredicates} : Run(text)

TypeSpec == Init /\ [][TypeNext]_vars

(***************************************************************************)
(* C15  The type predicates classify every variant: with v bound to a      *)
(* Number, Boolean, Null, String, List, Function or BuiltinFunction,       *)
(* isNumber(v) returns true exactly for a Number, isString(v) for a        *)
(* String, isList(v) for a List, and isFunction(v) for a function,         *)
(* user-defined or builtin; otherwise they return false.                   *)
(***************************************************************************)
C15_TypePredicates ==
    [][\A p \in TypePredicates :
         (/\ session' = Append(session, p.text)
          /\ "v" \in DOMAIN Globals) =>
             /\ outcome'.error = NoError
             /\ SameValue(outcome'.value, BoolValue(Globals["v"].type \in p.types))]_vars

(***************************************************************************)
(* Binary operators on operands of every variant: one call of run on       *)
(* `left op right`.                                                        *)
(***************************************************************************)
\* an expression for a value of each variant, as a right operand
\* a right operand of every variant, and the host's null an if without else
\* evaluates to
OperandTexts ==
    {"1", "true", "null", "\"t\"", "[2]", "(fun () -> 2)", "append", "(if 0 then 1)"}

StringOperands == {"\"s\""}
ListOperands == {"[1]"}
FunctionOperands == {"(fun () -> 1)", "isList"}
NumberOperands == {"1", "true", "null"}

ArithmeticAndComparison ==
    {"+", "-", "*", "/", "**", "==", "!=", "<", ">", "<=", ">="}

\* the operators the operator table marks illegal, by the left operand
IllegalOperators(left) ==
    CASE left \in StringOperands -> {"-", "/", "**"}
      [] left \in ListOperands -> {"*", "**", "==", "!=", "<", ">", "<="}
      [] left \in FunctionOperands -> ArithmeticAndComparison

BinaryText(left, op, right) ==
    Chars(left) \o <<" ">> \o Chars(op) \o <<" ">> \o Chars(right)

IllegalTexts ==
    UNION {{BinaryText(left, op, right) :
                op \in IllegalOperators(left), right \in OperandTexts} :
           left \in StringOperands \cup ListOperands \cup FunctionOperands}

IllegalNext == \E text \in IllegalTexts : session = <<>> /\ Run(text)

IllegalSpec == Init /\ [][IllegalNext]_vars

(***************************************************************************)
(* C16  For every operator the operator table marks illegal for the left   *)
(* operand's variant (String with - / **; List with * ** == != < > <=;     *)
(* Function with + - * / ** == != < > <= >=) and every right operand, run  *)
(* throws a Runtime Error: it returns no value and throws no error of the  *)
(* host.  The right operands are a value of every variant and what an if   *)
(* without else evaluates to.                                              *)
(***************************************************************************)
C16_IllegalOperators ==
    \A text \in IllegalTexts :
        session = <<text>> =>
            /\ outcome.error.name = "Runtime Error"
            /\ outcome.value = HostUndefined

(***************************************************************************)
(* A Number on the left of an operand that is no Number: one call of run   *)
(* on `number op right`.                                                   *)
(***************************************************************************)
UndefinedPairTexts ==
    {BinaryText(left, op, right) :
        left \in NumberOperands,
        op \in ArithmeticAndComparison,
        right \in {"\"t\"", "[2]", "(fun () -> 2)", "append"}}

UndefinedPairNext == \E text \in UndefinedPairTexts : session = <<>> /\ Run(text)

UndefinedPairSpec == Init /\ [][UndefinedPairNext]_vars

(***************************************************************************)
(* C17  An operand pairing without a defined meaning fails with the        *)
(* Runtime Error 'Illegal operation' and produces no value: so does every  *)
(* arithmetic or comparison operator with a Number on the left and a       *)
(* String, List or Function on the right.                                  *)
(***************************************************************************)
C17_NumberWithOther ==
    \A text \in UndefinedPairTexts :
        session = <<text>> =>
            /\ outcome.error.name = "Runtime Error"
            /\ outcome.error.message = "Illegal operation"
            /\ outcome.value = HostUndefined

(***************************************************************************)
(* Names: sessions that read names, bound and never bound, at the top      *)
(* level and in a function body.                                           *)
(***************************************************************************)
AccessNames == {"q", "x", "toString"}

NameLines ==
    {Chars(n) : n \in AccessNames}
        \cup {Chars("var x = 1"), Chars("fun f(x) -> x"), Chars("f(2)")}

NameNext == \E text \in NameLines : Run(text)

NameSpec == Init /\ [][NameNext]_vars

(***************************************************************************)
(* C18  Reading a name that has never been bound, in the environment of    *)
(* the read or in an ancestor of it, fails with the Runtime Error          *)
(* '"name" is not defined', for every identifier but the pre-bound         *)
(* globals; reading a bound name returns the value of the nearest          *)
(* binding: the parameter x of f shadows the global x.                     *)
(***************************************************************************)
C18_VarAccess ==
    [][/\ \A n \in AccessNames :
            session' = Append(session, Chars(n)) =>
                IF n \in DOMAIN Globals
                THEN /\ outcome'.error = NoError
                     /\ SameValue(outcome'.value, Globals[n])
                ELSE /\ outcome'.error.name = "Runtime Error"
                     /\ outcome'.error.message = "\"" \o n \o "\" is not defined"
                     /\ outcome'.value = HostUndefined
       /\ (session' = Append(session, Chars("f(2)")) /\ "f" \in DOMAIN Globals) =>
            /\ outcome'.error = NoError
            /\ SameValue(outcome'.value, Num(2))]_vars

(***************************************************************************)
(* Assignments in function bodies: sessions that define functions whose    *)
(* body is a var, a named function definition or a for loop on x, bind a   *)
(* global x and call the functions, directly and from another function.    *)
(***************************************************************************)
\* a call, the function it calls and the type of what the body binds x to
LocalCalls ==
    {[text |-> Chars("s()"), name |-> "s", type |-> "Number"],
     [text |-> Chars("d()"), name |-> "d", type |-> "Function"],
     [text |-> Chars("l()"), name |-> "l", type |-> "Number"]}

LocalLines ==
    {Chars("fun s() -> var x = 2"), Chars("fun d() -> fun x() -> 1"),
     Chars("fun l() -> for x = 0 to 2 then x"), Chars("var x = 1"),
     Chars("fun h(x) -> s()"), Chars("h(5)")}
        \cup {c.text : c \in LocalCalls}

LocalNext == \E text \in LocalLines : Run(text)

LocalSpec == Init /\ [][LocalNext]_vars

\* The step leaves every symbol table there was as it was and makes n more.
NewTables(n) ==
    /\ Len(symbolTables') = Len(symbolTables) + n
    /\ SubSeq(symbolTables', 1, Len(symbolTables)) = symbolTables

(***************************************************************************)
(* C19  An assignment writes to the local table of the environment it runs *)
(* in.  A call of a function whose body is `var x = 2`, `fun x() -> 1` or  *)
(* `for x = 0 to 2 then x` binds x in the table made for the call and      *)
(* leaves every table there was before the call, the global one and the    *)
(* caller's, with the names and values it had; so does a call h(5) whose   *)
(* body calls s: h's table still binds only x, to 5.                       *)
(***************************************************************************)
C19_LocalAssignment ==
    [][/\ \A c \in LocalCalls :
            (session' = Append(session, c.text) /\ c.name \in DOMAIN Globals) =>
                LET local == symbolTables'[Len(symbolTables')].symbols
                IN  /\ outcome'.error = NoError
                    /\ NewTables(1)
                    /\ DOMAIN local = {"x"}
                    /\ local["x"].type = c.type
                    /\ c.name = "s" => SameValue(local["x"], Num(2))
       /\ (/\ session' = Append(session, Chars("h(5)"))
           /\ {"h", "s"} \subseteq DOMAIN Globals) =>
              LET caller == symbolTables'[Len(symbolTables) + 1].symbols
                  local == symbolTables'[Len(symbolTables) + 2].symbols
              IN  /\ outcome'.error = NoError
                  /\ NewTables(2)
                  /\ DOMAIN caller = {"x"}
                  /\ SameValue(caller["x"], Num(5))
                  /\ DOMAIN local = {"x"}
                  /\ SameValue(local["x"], Num(2))]_vars

\* x was 1, s() ran `var x = 2`, and x is still 1
C19_Witness ==
    /\ session = <<Chars("var x = 1"), Chars("fun s() -> var x = 2"), Chars("s()")>>
    /\ Returned(Num(2))
    /\ SameValue(Globals["x"], Num(1))
    /\ SameValue(symbolTables[Len(symbolTables)].symbols["x"], Num(2))

(***************************************************************************)
(* Errors during evaluation: sessions of texts whose evaluation fails at   *)
(* one sub-expression and has an assignment to x, or another failing       *)
(* sub-expression, later in evaluation order.                              *)
(***************************************************************************)
NotDefined(name) == "\"" \o name \o "\" is not defined"

\* a text, the message of its first error, and the number of nodes visited
\* up to that error
FirstErrorCases ==
    {[text |-> Chars("[q, var x = 1]"), message |-> NotDefined("q"), visits |-> 2],
     [text |-> Chars("append(q, var x = 1)"), message |-> NotDefined("q"), visits |-> 3],
     [text |-> Chars("q + (var x = 1)"), message |-> NotDefined("q"), visits |-> 2],
     [text |-> Chars("if q then var x = 1 else var x = 2"),
      message |-> NotDefined("q"), visits |-> 2],
     [text |-> Chars("while 1 / 0 then var x = 1"),
      message |-> "Division by zero", visits |-> 4],
     [text |-> Chars("var x = [q, var x = 1]"), message |-> NotDefined("q"), visits |-> 3],
     [text |-> Chars("[1 / 0, q]"), message |-> "Division by zero", visits |-> 4]}

\* the loop fails in its second iteration, at 1 / (1 - i) with i = 1
FailingLoop == Chars("for i = 0 to 3 then [var x = i, 1 / (1 - i)]")

FirstErrorLines ==
    {c.text : c \in FirstErrorCases} \cup {FailingLoop, Chars("var x = 7")}

FirstErrorNext == \E text \in FirstErrorLines : Run(text)

FirstErrorSpec == Init /\ [][FirstErrorNext]_vars

\* run threw the Runtime Error of this message after this many visits
ThrewAfter(message, visits) ==
    /\ outcome'.error.name = "Runtime Error"
    /\ outcome'.error.message = message
    /\ outcome'.value = HostUndefined
    /\ outcome'.fuel = MaxFuel - visits

(***************************************************************************)
(* C20  The first runtime error ends the evaluation.  When a list element, *)
(* a call argument, a left operand, a condition or the first of two        *)
(* failing elements fails, nothing after it in evaluation order is         *)
(* visited: run throws that first error, returns no value, and the global  *)
(* bindings, x among them, are as before.  When the second iteration of a  *)
(* loop fails, no third iteration is run: x and i stay at the values of    *)
(* the second iteration.                                                   *)
(***************************************************************************)
C20_FirstError ==
    [][/\ \A c \in FirstErrorCases :
            session' = Append(session, c.text) =>
                /\ ThrewAfter(c.message, c.visits)
                /\ symbolTables' = symbolTables
                /\ elementArrays' = elementArrays
       /\ session' = Append(session, FailingLoop) =>
            LET after == symbolTables'[1].symbols
            IN  /\ ThrewAfter("Division by zero", 19)
                /\ SameValue(after["x"], Num(1))
                /\ SameValue(after["i"], Num(1))
                /\ \A n \in DOMAIN Globals \ {"x", "i"} : after[n] = Globals[n]]_vars

\* x was 7; [q, var x = 1] threw at q and x is still 7
C20_Witness ==
    /\ session = <<Chars("var x = 7"), Chars("[q, var x = 1]")>>
    /\ ThrewRuntimeError(NotDefined("q"))
    /\ SameValue(Globals["x"], Num(7))

(***************************************************************************)
(* && and || on operands of every variant: one call of run on              *)
(* `left && right` or `left || right`.                                     *)
(***************************************************************************)
\* An operand: its text, the type of its value, whether the value is
\* truthy, and its payload (a Number's, Boolean's or Null's number, a
\* String's characters, the number a List holds, the number a Function
\* returns).
Operand(text, type, truthy, payload) ==
    [text |-> text, type |-> type, truthy |-> truthy, payload |-> payload]

LeftOperands ==
    {Operand("0", "Number", FALSE, Whole(0)), Operand("1", "Number", TRUE, Whole(1)),
     Operand("true", "Bool", TRUE, Whole(1)), Operand("false", "Bool", FALSE, Whole(0)),
     Operand("null", "Null", FALSE, Whole(0)),
     Operand("\"\"", "String", FALSE, <<>>), Operand("\"s\"", "String", TRUE, <<"s">>),
     Operand("[1]", "List", TRUE, Whole(1)),
     Operand("(fun () -> 1)", "Function", TRUE, Whole(1))}

RightOperands ==
    {Operand("2", "Number", TRUE, Whole(2)), Operand("true", "Bool", TRUE, Whole(1)),
     Operand("null", "Null", FALSE, Whole(0)),
     Operand("\"t\"", "String", TRUE, <<"t">>),
     Operand("[2]", "List", TRUE, Whole(2)),
     Operand("(fun () -> 2)", "Function", TRUE, Whole(2))}

LogicalTexts ==
    {BinaryText(l.text, op, r.text) :
        l \in LeftOperands, op \in {"&&", "||"}, r \in RightOperands}

LogicalNext == \E text \in LogicalTexts : session = <<>> /\ Run(text)

LogicalSpec == Init /\ [][LogicalNext]_vars

\* the payload of the value v in the current state
PayloadOf(v) ==
    CASE v.type \in {"Number", "Bool", "Null"} -> v.value
      [] v.type = "String" -> v.str
      [] v.type = "List" -> elementArrays[v.elements][1].value
      [] v.type = "Function" -> parseInt(v.bodyNode.token.value)

\* run returned a value with the type and payload of this operand
ReturnedOperand(e) ==
    /\ outcome.error = NoError
    /\ outcome.value.type = e.type
    /\ PayloadOf(outcome.value) = e.payload

(***************************************************************************)
(* C21  For operands l and r of any variants, l && r yields a value with   *)
(* the variant and payload of l when l is falsy and of r otherwise, and    *)
(* l || r yields l's when l is truthy and r's otherwise.                   *)
(***************************************************************************)
C21_AndOr ==
    \A l \in LeftOperands, r \in RightOperands :
        /\ session = <<BinaryText(l.text, "&&", r.text)>> =>
               ReturnedOperand(IF l.truthy THEN r ELSE l)
        /\ session = <<BinaryText(l.text, "||", r.text)>> =>
               ReturnedOperand(IF l.truthy THEN l ELSE r)

(***************************************************************************)
(* Precedence and associativity: one call of run on `1 op1 2 op2 3` for    *)
(* every pair of binary operators, and on texts with a unary sign.         *)
(***************************************************************************)
\* the binary operators, each with the type (or keyword) of its token and
\* its precedence tier; tier 5 is the unary sign
BinaryOperators ==
    {<<"&&", "&&", 1>>, <<"||", "||", 1>>,
     <<"==", TT_EE, 2>>, <<"!=", TT_NE, 2>>, <<"<", TT_LT, 2>>,
     <<">", TT_GT, 2>>, <<"<=", TT_LTE, 2>>, <<">=", TT_GTE, 2>>,
     <<"+", TT_PLUS, 3>>, <<"-", TT_MINUS, 3>>,
     <<"*", TT_MUL, 4>>, <<"/", TT_DIV, 4>>,
     <<"**", TT_POW, 6>>}

TernaryText(op1, op2) == BinaryText("1", op1[1], "2") \o <<" ">> \o Chars(op2[1]) \o <<" ", "3">>

UnaryTexts == {"-1 ** 2", "-1 * 2", "-1 + 2", "1 ** -2 ** 3", "1 * -2 * 3"}

PrecedenceTexts ==
    {TernaryText(op1, op2) : op1 \in BinaryOperators, op2 \in BinaryOperators}
        \cup {Chars(t) : t \in UnaryTexts}

PrecedenceNext == \E text \in PrecedenceTexts : session = <<>> /\ Run(text)

PrecedenceSpec == Init /\ [][PrecedenceNext]_vars

\* the tree of a node written with one pair of parentheses per operator
RECURSIVE Grouping(_)
Grouping(node) ==
    CASE node.kind = "NumberNode" -> Str(node.token.value)
      [] node.kind = "UnaryOpNode" ->
            "(" \o node.token.type \o " " \o Grouping(node.node) \o ")"
      [] node.kind = "BinOpNode" ->
            "(" \o Grouping(node.leftNode) \o " "
                \o (IF node.token.type = TT_KEYWORD THEN Str(node.token.value)
                    ELSE node.token.type)
                \o " " \o Grouping(node.rightNode) \o ")"
      [] OTHER -> "?"

\* the tree the parser builds for the text
Parsed(text) == Grouping(parse(makeTokens(text).tokens).node)

LeftGrouped(op1, op2) == "((1 " \o op1[2] \o " 2) " \o op2[2] \o " 3)"
RightGrouped(op1, op2) == "(1 " \o op1[2] \o " (2 " \o op2[2] \o " 3))"

(***************************************************************************)
(* C22  Binary operators of the same tier associate to the left and higher *)
(* tiers bind tighter: `a op1 b op2 c` parses as `(a op1 b) op2 c` unless  *)
(* op2 is of a higher tier than op1 or both are `**`, and then as          *)
(* `a op1 (b op2 c)`; a unary sign binds tighter than * and looser than    *)
(* **; 1-2-3 evaluates to -4.                                              *)
(***************************************************************************)
C22_Precedence ==
    /\ \A op1 \in BinaryOperators, op2 \in BinaryOperators :
           session = <<TernaryText(op1, op2)>> =>
               Parsed(session[1]) =
                   IF op2[3] > op1[3] \/ (op1[1] = "**" /\ op2[1] = "**")
                   THEN RightGrouped(op1, op2) ELSE LeftGrouped(op1, op2)
    /\ Ran("-1 ** 2") => Parsed(session[1]) = "(MINUS (1 POW 2))"
    /\ Ran("-1 * 2") => Parsed(session[1]) = "((MINUS 1) MUL 2)"
    /\ Ran("-1 + 2") => Parsed(session[1]) = "((MINUS 1) PLUS 2)"
    /\ Ran("1 ** -2 ** 3") => Parsed(session[1]) = "(1 POW (MINUS (2 POW 3)))"
    /\ Ran("1 * -2 * 3") => Parsed(session[1]) = "((1 MUL (MINUS 2)) MUL 3)"
    /\ Ran("1 - 2 - 3") => Returned(Num(-4))
    /\ Ran("1 + 2 * 3") => Returned(Num(7))

C22_Witness ==
    \/ Ran("1 - 2 - 3") /\ Parsed(session[1]) = "((1 MINUS 2) MINUS 3)"
                        /\ Returned(Num(-4))
    \/ Ran("1 ** 2 ** 3") /\ Parsed(session[1]) = "(1 POW (2 POW 3))"

(***************************************************************************)
(* Syntax errors: one call of run on a text that stops being an expression *)
(* after a prefix.  The prefixes are grouped by the rule that is waiting   *)
(* for an operand when the text goes wrong.                                *)
(***************************************************************************)
\* an operand of an arithmetic or comparison operator or of a sign is
\* missing: the results of the rules around it have counted tokens
OperandPrefixes ==
    {"1 +", "1 -", "1 *", "1 /", "1 **", "1 ==", "1 !=", "1 <", "1 >",
     "1 <=", "1 >=", "-", "+", "1 + 2 *", "(1 +", "[1 +"}

\* an operand of && or || or ! is missing: compExpr starts a result of its own
ComparisonPrefixes == {"1 &&", "1 ||", "!", "1 && !"}

\* a whole expression is missing: expr starts a result of its own
ExprPrefixes ==
    {"", "(", "[", "[1,", "var a =", "a(", "a(1,", "if", "if 1 then",
     "while", "while 1 then", "for i ="}

\* what cannot begin an expression; "" is the end of the text
BadSuffixes == {"", "*", "/", "=="}

BrokenText(prefix, suffix) ==
    IF prefix = "" \/ suffix = "" THEN Chars(prefix) \o Chars(suffix)
    ELSE Chars(prefix) \o <<" ">> \o Chars(suffix)

\* the index of the token the parse fails at
BrokenAt(prefix, suffix) ==
    IF prefix = "" \/ suffix = "" THEN Len(prefix) ELSE Len(prefix) + 1

SyntaxErrorTexts ==
    {BrokenText(prefix, suffix) :
        prefix \in OperandPrefixes \cup ComparisonPrefixes \cup ExprPrefixes,
        suffix \in BadSuffixes}

SyntaxErrorNext == \E text \in SyntaxErrorTexts : session = <<>> /\ Run(text)

SyntaxErrorSpec == Init /\ [][SyntaxErrorNext]_vars

\* run threw the syntax error with this message at the token at index
ThrewSyntaxError(message, index) ==
    /\ outcome.error.name = InvalidSyntaxError(NoPosition, NoPosition, "").name
    /\ outcome.error.message = message
    /\ outcome.error.posStart.index = index

(***************************************************************************)
(* C23  On a syntax error the parser reports the error of the deepest      *)
(* partial parse: the generic error of an enclosing rule replaces the      *)
(* error of a sub-rule only when the enclosing rule's result has counted   *)
(* no token.  A missing operand after an arithmetic or comparison operator *)
(* or a sign is reported with the atom's message (so for `1 +`, at the end *)
(* of the text), after && || or ! with compExpr's message, and a missing   *)
(* expression with expr's message, whatever rules enclose it; each at the  *)
(* token where the text goes wrong.                                        *)
(***************************************************************************)
C23_DeepestError ==
    \A suffix \in BadSuffixes :
        /\ \A prefix \in OperandPrefixes :
               session = <<BrokenText(prefix, suffix)>> =>
                   ThrewSyntaxError(ExpectedAtom, BrokenAt(prefix, suffix))
        /\ \A prefix \in ComparisonPrefixes :
               session = <<BrokenText(prefix, suffix)>> =>
                   ThrewSyntaxError(ExpectedComp, BrokenAt(prefix, suffix))
        /\ \A prefix \in ExprPrefixes :
               session = <<BrokenText(prefix, suffix)>> =>
                   ThrewSyntaxError(ExpectedExpr, BrokenAt(prefix, suffix))

C23_Witness == Ran("1 +") /\ ThrewSyntaxError(ExpectedAtom, 3)

(***************************************************************************)
(* Spans of the nodes of the tree: one call of run on a form of the        *)
(* language put inside a larger expression.                                *)
(***************************************************************************)
SpanForms ==
    {"1", "a", "-1", "1 + 2", "\"s\"", "[1, 2]", "var a = 1",
     "if 1 then 2", "if 1 then 2 else 3", "if 0 then 2 elif 1 then 3",
     "if [1] then [2]", "if [1] then [2] else [3]",
     "a()", "a(1)", "a(1, 2)",
     "fun () -> 1", "fun f(x) -> x", "fun (x) -> x",
     "while 0 then 1", "for i = 1 to 2 then i"}

SpanText(wrapper, form) ==
    CASE wrapper = "X" -> Chars(form)
      [] wrapper = "(X)" -> <<"(">> \o Chars(form) \o <<")">>
      [] wrapper = "[X]" -> <<"[">> \o Chars(form) \o <<"]">>
      [] wrapper = "1 + X" -> Chars("1 + ") \o Chars(form)
      [] wrapper = "var b = X" -> Chars("var b = ") \o Chars(form)
      [] wrapper = "(X) * 2" -> <<"(">> \o Chars(form) \o Chars(") * 2")

SpanWrappers == {"X", "(X)", "[X]", "1 + X", "var b = X", "(X) * 2"}

SpanTexts == {SpanText(wrapper, form) : wrapper \in SpanWrappers, form \in SpanForms}

SpanNext == \E text \in SpanTexts : session = <<>> /\ Run(text)

SpanSpec == Init /\ [][SpanNext]_vars

\* the child nodes of a node
Children(node) ==
    CASE node.kind = "ListNode" -> node.elementNodes
      [] node.kind = "VarAssignNode" -> <<node.valueNode>>
      [] node.kind = "UnaryOpNode" -> <<node.node>>
      [] node.kind = "BinOpNode" -> <<node.leftNode, node.rightNode>>
      [] node.kind = "IfNode" ->
            [i \in 1..(2 * Len(node.cases)) |->
                node.cases[(i + 1) \div 2][2 - (i % 2)]]
                \o (IF node.elseCase.kind # NoNode.kind THEN <<node.elseCase>> ELSE <<>>)
      [] node.kind = "ForNode" ->
            <<node.startNode, node.endNode>>
                \o (IF node.stepNode.kind # NoNode.kind THEN <<node.stepNode>> ELSE <<>>)
                \o <<node.bodyNode>>
      [] node.kind = "WhileNode" -> <<node.conditionNode, node.bodyNode>>
      [] node.kind = "FuncDefNode" -> <<node.bodyNode>>
      [] node.kind = "CallNode" -> <<node.nodeToCall>> \o node.argNodes
      [] OTHER -> <<>>

\* the span of every node of the tree covers the spans of its children
RECURSIVE SpansCovered(_)
SpansCovered(node) ==
    \A i \in 1..Len(Children(node)) :
        /\ node.posStart.index <= Children(node)[i].posStart.index
        /\ Children(node)[i].posEnd.index <= node.posEnd.index
        /\ SpansCovered(Children(node)[i])

(***************************************************************************)
(* C24  Every AST node produced by the parser has a span that fully covers *)
(* the spans of all its children, If nodes with and without an else        *)
(* branch, Call nodes with and without arguments and function definitions  *)
(* included.                                                               *)
(***************************************************************************)
C24_SpansCovered ==
    \A text \in SpanTexts :
        session = <<text>> => SpansCovered(parse(makeTokens(text).tokens).node)

(***************************************************************************)
(* Tracebacks: src/basic.ts 115-127.  A run of lines that define functions *)
(* and call them; the error of the last line carries the context it was    *)
(* raised with, and the traceback follows that context's parents.          *)
(***************************************************************************)
RECURSIVE tracebackLines(_, _, _)
\* the while (ctx) loop of generateTraceback: one line per context
tracebackLines(pos, ctx, contexts) ==
    IF ctx = 0 THEN <<>>
    ELSE <<[row |-> pos.row, col |-> pos.col,
            contextName |-> contexts[ctx].contextName]>>
             \o tracebackLines(contexts[ctx].parentEntryPos, contexts[ctx].parent,
                               contexts)

\* RTError.generateTraceback: the lines after the heading
generateTraceback(error, contexts) ==
    tracebackLines(error.posStart, error.context, contexts)

TraceLines ==
    {"fun f() -> 1 / 0", "fun g() -> f()", "f()", "g()",
     "fun r(n) -> if n == 0 then 1 / 0 else r(n - 1)", "r(2)",
     "var l = [1]", "fun h() -> l / 0 / 0", "h()",
     "1 / 0", "(fun () -> 1 / 0)()"}

TraceNext == \E line \in TraceLines : Run(Chars(line))

TraceSpec == Init /\ [][TraceNext]_vars

\* a run of lines whose last line fails, and the functions whose calls are
\* active when it fails, the innermost first
TraceCase(lines, active) == [lines |-> lines, active |-> active]

TraceCases ==
    {TraceCase(<<"1 / 0">>, <<>>),
     TraceCase(<<"fun f() -> 1 / 0", "f()">>, <<"f">>),
     TraceCase(<<"fun g() -> f()", "g()">>, <<"g">>),
     TraceCase(<<"fun f() -> 1 / 0", "fun g() -> f()", "g()">>, <<"f", "g">>),
     TraceCase(<<"fun r(n) -> if n == 0 then 1 / 0 else r(n - 1)", "r(2)">>,
               <<"r", "r", "r">>),
     TraceCase(<<"(fun () -> 1 / 0)()">>, <<"<anonymous>">>),
     TraceCase(<<"var l = [1]", "fun h() -> l / 0 / 0", "h()">>, <<"h">>)}

\* the names the lines of the traceback of the last run's error end with
TracebackNames ==
    LET lines == generateTraceback(outcome.error, basicContexts)
    IN  [i \in 1..Len(lines) |-> lines[i].contextName]

(***************************************************************************)
(* C25  The traceback of a runtime error has exactly one line per context  *)
(* frame on the call chain: for an error raised while d user-function      *)
(* calls are active it has d+1 lines, the innermost call first, each call  *)
(* frame naming the called function, and the last line naming <program>.   *)
(***************************************************************************)
C25_Traceback ==
    \A c \in TraceCases :
        session = [i \in 1..Len(c.lines) |-> Chars(c.lines[i])] =>
            /\ outcome.error.name = "Runtime Error"
            /\ TracebackNames = c.active \o <<"<program>">>

(***************************************************************************)
(* The lexer's position on texts with newlines: makeTokens on every text   *)
(* of up to MaxTextLen characters of PositionAlphabet, one pass of its     *)
(* loop at a time.                                                         *)
(***************************************************************************)
PositionAlphabet == {"\n", "1", "a", " ", "+", "\""}

PositionTexts == UNION {[1..n -> PositionAlphabet] : n \in 0..MaxTextLen}

PositionInit ==
    /\ lexText \in PositionTexts
    /\ lexer = LexerStart(lexText)
    /\ ReplInit

PositionSpec == PositionInit /\ [][LexNext]_vars

\* where the newline characters among the first index characters of text are
NewlinesBefore(text, index) ==
    {k \in 1..Len(text) : k <= index /\ text[k] = "\n"}

\* the number of characters up to and including the last of them
LastNewline(text, index) ==
    IF NewlinesBefore(text, index) = {} THEN 0
    ELSE CHOOSE k \in NewlinesBefore(text, index) :
            \A j \in NewlinesBefore(text, index) : j <= k

\* row and col are those of the place index characters into the text
RowAndCol(text, pos) ==
    /\ pos.row = Cardinality(NewlinesBefore(text, pos.index))
    /\ pos.col = pos.index - LastNewline(text, pos.index)

(***************************************************************************)
(* C26  While the lexer scans a text, index is the number of characters    *)
(* already passed, row is the number of newline characters among them and  *)
(* col is the number of characters between the last such newline (or the   *)
(* start of the text) and index.                                           *)
(***************************************************************************)
C26_Position ==
    /\ lexer.pos.index \in 0..Len(lexText)
    /\ RowAndCol(lexText, lexer.pos)

(***************************************************************************)
(* Order of evaluation of the operands of a binary operator: a line that   *)
(* binds a, then a line whose two operands are assignments, or whose left  *)
(* operand fails.                                                          *)
(***************************************************************************)
AllOperators == ArithmeticAndComparison \cup {"&&", "||"}

SetA(k) == Chars("var a = ") \o NatChars(k)

\* the left operand adds one to a, the right one doubles a
OrderText(op) == BinaryText("(var a = a + 1)", op, "(var a = a * 2)")
\* the left operand fails: x is not defined / 1 is divided by zero
UndefinedLeftText(op) == BinaryText("x", op, "(var a = 0)")
ZeroLeftText(op) == BinaryText("(1 / 0)", op, "(var a = 0)")

OrderTexts ==
    {OrderText(op) : op \in AllOperators}
        \cup {UndefinedLeftText(op) : op \in AllOperators}
        \cup {ZeroLeftText(op) : op \in AllOperators}
        \cup {Chars("(var a = 0) && (var b = 5)"), Chars("(var a = 7) || (var b = 5)")}

OrderNext ==
    \/ \E k \in 1..3 : session = <<>> /\ Run(SetA(k))
    \/ \E text \in OrderTexts :
          /\ session = <<>> \/ (\E k \in 1..3 : session = <<SetA(k)>>)
          /\ Run(text)

OrderSpec == Init /\ [][OrderNext]_vars

\* a is bound to the number n
AIs(n) == "a" \in DOMAIN Globals /\ SameValue(Globals["a"], Num(n))

(***************************************************************************)
(* C27  For every binary operator, && and || included, the evaluator       *)
(* evaluates the left operand first and then the right operand, each       *)
(* exactly once, before the operator is applied: side effects of the right *)
(* operand take place even when the left operand alone decides the result  *)
(* of && or ||, and a failing left operand prevents the right operand from *)
(* being evaluated.                                                        *)
(***************************************************************************)
C27_EvaluationOrder ==
    /\ \A k \in 1..3, op \in AllOperators :
          /\ session = <<SetA(k), OrderText(op)>> =>
                outcome.error = NoError /\ AIs(2 * (k + 1))
          /\ session = <<SetA(k), UndefinedLeftText(op)>> =>
                ThrewRuntimeError(NotDefined("x")) /\ AIs(k)
          /\ session = <<SetA(k), ZeroLeftText(op)>> =>
                ThrewRuntimeError("Division by zero") /\ AIs(k)
    /\ \A op \in AllOperators :
          session = <<OrderText(op)>> =>
              ThrewRuntimeError(NotDefined("a")) /\ "a" \notin DOMAIN Globals
    /\ \A k \in 1..3 :
          /\ session = <<SetA(k), OrderText("+")>> => Returned(Num(3 * (k + 1)))
          /\ session = <<SetA(k), OrderText("-")>> => Returned(Num(-(k + 1)))
          /\ session = <<SetA(k), OrderText("&&")>> => Returned(Num(2 * (k + 1)))
          /\ session = <<SetA(k), OrderText("||")>> => Returned(Num(k + 1))
    /\ Ran("(var a = 0) && (var b = 5)") =>
          /\ Returned(Num(0)) /\ AIs(0)
          /\ "b" \in DOMAIN Globals /\ SameValue(Globals["b"], Num(5))
    /\ Ran("(var a = 7) || (var b = 5)") =>
          /\ Returned(Num(7)) /\ AIs(7)
          /\ "b" \in DOMAIN Globals /\ SameValue(Globals["b"], Num(5))

C27_Witness ==
    /\ Ran("(var a = 0) && (var b = 5)")
    /\ Returned(Num(0))
    /\ "b" \in DOMAIN Globals /\ SameValue(Globals["b"], Num(5))

(***************************************************************************)
(* The integer flag of computed numbers: one call of run on `a op b` for   *)
(* integer literals a and b, alone and inside isInt( ) and isFloat( ).     *)
(***************************************************************************)
MaxLiteral == 3
Arithmetic == {"+", "-", "*", "/", "**"}

ArithmeticText(a, op, b) == BinaryText(Str(NatChars(a)), op, Str(NatChars(b)))

\* test(text), test being isInt or isFloat
TestText(test, text) == Chars(test) \o <<"(">> \o text \o <<")">>

FlagTexts ==
    UNION {{ArithmeticText(a, op, b),
            TestText("isInt", ArithmeticText(a, op, b)),
            TestText("isFloat", ArithmeticText(a, op, b))} :
           a \in 0..MaxLiteral, op \in Arithmetic, b \in 0..MaxLiteral}

FlagNext == \E text \in FlagTexts : session = <<>> /\ Run(text)

FlagSpec == Init /\ [][FlagNext]_vars

\* the number a op b is
Exact(a, op, b) ==
    CASE op = "+" -> NumAdd(Whole(a), Whole(b))
      [] op = "-" -> NumSub(Whole(a), Whole(b))
      [] op = "*" -> NumMul(Whole(a), Whole(b))
      [] op = "/" -> NumDiv(Whole(a), Whole(b))
      [] op = "**" -> NumPow(Whole(a), Whole(b))

(***************************************************************************)
(* C28  Every Number value whose integer flag is set holds a whole number: *)
(* a result of + - * / ** on integer literals that is flagged as integer   *)
(* (one for which isInt returns true) has an integral value, and a result  *)
(* with a fractional part is flagged as float.                             *)
(***************************************************************************)
C28_IntegerFlag ==
    \A a \in 0..MaxLiteral, op \in Arithmetic, b \in 0..MaxLiteral :
        /\ (session = <<ArithmeticText(a, op, b)>> /\ outcome.error = NoError) =>
               /\ outcome.value.type = "Number"
               /\ outcome.value.value = Exact(a, op, b)
               /\ outcome.value.isInt => IsInteger(outcome.value.value)
        /\ (session = <<TestText("isInt", ArithmeticText(a, op, b))>>
                /\ Returned(BoolValue(TRUE))) => IsInteger(Exact(a, op, b))
        /\ (session = <<TestText("isFloat", ArithmeticText(a, op, b))>>
                /\ outcome.error = NoError /\ ~IsInteger(Exact(a, op, b))) =>
               Returned(BoolValue(TRUE))

(***************************************************************************)
(* For loops whose body assigns to the variables of the loop: a line that  *)
(* binds n, a loop whose start, end or step is n and whose body assigns to *)
(* i or to n, then a line that reads i or n.                               *)
(***************************************************************************)
SetN(k) == Chars("var n = ") \o NatChars(k)

LoopHeads ==
    {"for i = 0 to n", "for i = n to 0 step -1", "for i = 0 to 4 step n",
     "for i = n to 3"}

LoopBodies == {"i", "var i = 0", "var i = i + 5", "var n = 0", "var n = n + 1"}

LoopText(head, body) == Chars(head) \o Chars(" then ") \o Chars(body)

\* the step of the loop when n is k
HeadStep(head, k) ==
    CASE head = "for i = n to 0 step -1" -> -1
      [] head = "for i = 0 to 4 step n" -> k
      [] OTHER -> 1

\* the counter values of the loop when n is k as the loop is entered
HeadValues(head, k) ==
    CASE head = "for i = 0 to n" -> CounterValues(0, k, 1)
      [] head = "for i = n to 0 step -1" -> CounterValues(k, 0, -1)
      [] head = "for i = 0 to 4 step n" -> CounterValues(0, 4, k)
      [] head = "for i = n to 3" -> CounterValues(k, 3, 1)

LoopNext ==
    \/ \E k \in 0..MaxCount : session = <<>> /\ Run(SetN(k))
    \/ \E head \in LoopHeads, body \in LoopBodies :
          Len(session) = 1 /\ Run(LoopText(head, body))
    \/ \E name \in {"i", "n"} : Len(session) = 2 /\ Run(Chars(name))

LoopSpec == Init /\ [][LoopNext]_vars

\* n is bound to the number k
NIs(k) == "n" \in DOMAIN Globals /\ SameValue(Globals["n"], Num(k))

\* the loops of LoopHeads run as often as the values on entry say and end,
\* whatever their bodies assign
FiniteLoopsFixed ==
    \A k \in 0..MaxCount, head \in LoopHeads, body \in LoopBodies :
        HeadStep(head, k) # 0 =>
            /\ session = <<SetN(k)>> =>
                   run(LoopText(head, body), State).error.name # Diverges.name
            /\ session = <<SetN(k), LoopText(head, body)>> =>
                   /\ outcome.error = NoError
                   /\ outcome.value.type = "List"
                   /\ Len(elementArrays[outcome.value.elements])
                          = Len(HeadValues(head, k))
                   /\ (body = "var n = 0" /\ HeadValues(head, k) # <<>>) => NIs(0)
                   /\ body = "var n = n + 1" => NIs(k + Len(HeadValues(head, k)))

\* a loop with the step 1 whose end, 0 ** -1, is Infinity
EndlessLoop == Chars("for i = 0 to 0 ** -1 then 0")

(***************************************************************************)
(* C29  The number of iterations of a for loop is fixed by the start, end  *)
(* and step values evaluated once before the first iteration: assignments  *)
(* made by the body to the induction variable or to variables used in the  *)
(* start, end or step expressions do not change how many times the body    *)
(* runs, and with a nonzero step the loop terminates whenever every body   *)
(* evaluation terminates.                                                  *)
(***************************************************************************)
C29_IterationsFixed ==
    /\ FiniteLoopsFixed
    /\ Len(session) = 1 => run(EndlessLoop, State).error.name # Diverges.name

(***************************************************************************)
(* Runs that fail in the lexer or in the parser: lines that bind names,    *)
(* and lines with an illegal character or a syntax error, most of them     *)
(* after an assignment that is complete.                                   *)
(***************************************************************************)
BindingLines == {"var a = 1", "var b = [a]", "fun f() -> a"}

IllegalCharLines == {"$", "var a = 5 $", "var b = [a] ?", "var c = \"s\" + 1 $"}

SyntaxErrorLines ==
    {"var a = 5 6", "var a = 5 )", "var b = 7 var c = 8", "var a = [1, 2",
     "(var a = 5", "fun f() -> 1 1", "var a = 5 +"}

EnvNext ==
    \E line \in BindingLines \cup IllegalCharLines \cup SyntaxErrorLines :
        Run(Chars(line))

EnvSpec == Init /\ [][EnvNext]_vars

(***************************************************************************)
(* C30  A run whose input fails in the lexer or in the parser leaves the   *)
(* global environment unchanged: an input with an illegal character or a   *)
(* syntax error anywhere in it, even after a syntactically complete        *)
(* assignment, creates or changes no binding (and makes no other object).  *)
(***************************************************************************)
C30_FailedRunChangesNothing ==
    [][/\ \A line \in IllegalCharLines :
             session' = Append(session, Chars(line)) =>
                 /\ outcome'.error.name = IllegalCharError(NoPosition, NoPosition, "").name
                 /\ symbolTables' = symbolTables
                 /\ basicContexts' = basicContexts
                 /\ elementArrays' = elementArrays
                 /\ valueObjects' = valueObjects
       /\ \A line \in SyntaxErrorLines :
             session' = Append(session, Chars(line)) =>
                 /\ outcome'.error.name = InvalidSyntaxError(NoPosition, NoPosition, "").name
                 /\ symbolTables' = symbolTables
                 /\ basicContexts' = basicContexts
                 /\ elementArrays' = elementArrays
                 /\ valueObjects' = valueObjects]_vars

C30_Witness ==
    /\ session = <<Chars("var a = 1"), Chars("var a = 5 6")>>
    /\ outcome.error.name = InvalidSyntaxError(NoPosition, NoPosition, "").name
    /\ "a" \in DOMAIN Globals /\ SameValue(Globals["a"], Num(1))

====
